---- MODULE Spec2Model ----
(***************************************************************************)
(* Model of the Auxite oracle watcher: the price fetcher's fallback chain, *)
(* and the scheduler's tick pipeline over the state store, the chain RPC   *)
(* and the notification endpoint.                                          *)
(*                                                                         *)
(* Units.  A $/oz price is a whole number of dollars; a $/gram price is a  *)
(* whole number of cents.  Time is counted in units of 300 s (the alert    *)
(* cooldown), so that the staleness threshold (600 s) is 2 units.          *)
(***************************************************************************)
EXTENDS Integers, Sequences, FiniteSets, TLC

\* ------------------------------------------------------------------ bounds
\* The tick invocations that can be pending at once.
MaxTicks == 2
\* The operations on the store, the feeds, the chain and the notification
\* endpoint that fail during one behaviour.
MaxFaults == 2
\* The free places of the price history list in the initial state.
MaxHistoryFree == 1

\* --------------------------------------------------------- config.ts
maxConsecutiveErrors == 10
alertAfterErrors == 3

Metals == {"gold", "silver", "platinum", "palladium"}
MetalOrder == <<"gold", "silver", "platinum", "palladium">>

\* CONFIG.fallbackPrices ($/gram, here in cents)
fallbackPrices == [gold |-> 16240, silver |-> 286, platinum |-> 7330, palladium |-> 5850]
\* CONFIG.fallbackPricesOz ($/oz)
fallbackPricesOz == [gold |-> 5050, silver |-> 89, platinum |-> 2280, palladium |-> 1820]
\* CONFIG.goldApiSymbols
goldApiSymbols == [XAU |-> "gold", XAG |-> "silver", XPT |-> "platinum", XPD |-> "palladium"]

\* x / TROY_OZ with TROY_OZ = 31.1035, from dollars per ounce to cents per gram:
\* 100 * x / 31.1035 = x * 200000 / 62207 (the float division, rounded down).
DivTroyOz(x) == (x * 200000) \div 62207

\* ----------------------------------------------------- price-fetcher.ts
symbols == <<"XAU", "XAG", "XPT", "XPD">>

\* One HTTP exchange of the primary feed: net = the request got a response,
\* status = its HTTP status, json = the body parses, price = data.price
\* (0 stands for a missing or zero price: both are falsy).
GoldApiBad(r) == ~r.net \/ r.status # 200 \/ ~r.json \/ r.price <= 0

\* The message of the exception the request of one symbol raises.
GoldApiError(sym, r) ==
    IF ~r.net THEN [api |-> "GoldAPI", sym |-> "", why |-> "fetch failed"]
    ELSE IF r.status = 429 THEN [api |-> "GoldAPI", sym |-> "", why |-> "rate limited"]
    ELSE IF r.status # 200 THEN [api |-> "GoldAPI", sym |-> sym, why |-> "HTTP"]
    ELSE IF ~r.json THEN [api |-> "GoldAPI", sym |-> "", why |-> "invalid json"]
    ELSE [api |-> "GoldAPI", sym |-> sym, why |-> "invalid price"]

\* fetchFromGoldApi: the requests go out in the order of symbols, and the first
\* one that fails raises.  requests = the number of requests sent.
FirstBad(resp) ==
    IF \E i \in 1..4 : GoldApiBad(resp[i])
    THEN CHOOSE i \in 1..4 : GoldApiBad(resp[i]) /\ \A j \in 1..(i - 1) : ~GoldApiBad(resp[j])
    ELSE 0

\* The primary feed without its per-symbol checks: a symbol that fails is
\* skipped, and its metal takes the configured price.
fetchFromGoldApiLenient(hasKey, resp) ==
    LET oz == [m \in Metals |->
                 LET i == CHOOSE k \in 1..4 : goldApiSymbols[symbols[k]] = m
                 IN IF GoldApiBad(resp[i]) THEN fallbackPricesOz[m] ELSE resp[i].price]
    IN [threw |-> FALSE, error |-> [api |-> "", sym |-> "", why |-> ""],
        requests |-> 4, pricesOz |-> oz,
        prices |-> [m \in Metals |-> DivTroyOz(oz[m])]]

fetchFromGoldApi(hasKey, resp) ==
    IF ~hasKey
    THEN [threw |-> TRUE, error |-> [api |-> "GoldAPI", sym |-> "", why |-> "GOLDAPI_KEY not set"],
          requests |-> 0, pricesOz |-> fallbackPricesOz, prices |-> fallbackPrices]
    ELSE LET b == FirstBad(resp)
             oz == [m \in Metals |->
                      LET i == CHOOSE k \in 1..4 : goldApiSymbols[symbols[k]] = m
                      IN resp[i].price]
         IN IF b # 0
            THEN [threw |-> TRUE, error |-> GoldApiError(symbols[b], resp[b]),
                  requests |-> b, pricesOz |-> fallbackPricesOz, prices |-> fallbackPrices]
            ELSE [threw |-> FALSE, error |-> [api |-> "", sym |-> "", why |-> ""],
                  requests |-> 4, pricesOz |-> oz,
                  prices |-> [m \in Metals |-> DivTroyOz(oz[m])]]

\* The body of the secondary feed is a list of items; an item is either
\* {<metal>: price} (fmt "plain") or {metal: <name>, price: price} (fmt "alt").
\* The loop of fetchFromMetalsLive keeps, per metal, the last truthy price.
RECURSIVE ParseMetalsLive(_, _)
ParseMetalsLive(items, acc) ==
    IF items = <<>> THEN acc
    ELSE LET it == Head(items)
         IN ParseMetalsLive(Tail(items),
                IF it.price # 0 THEN [acc EXCEPT ![it.metal] = it.price] ELSE acc)

NoOz == [m \in Metals |-> 0]

\* fetchFromMetalsLive: s.net, s.ok (HTTP status 2xx), s.json (the body parses),
\* s.array (the body is an array), s.items.
fetchFromMetalsLive(s) ==
    LET oz == IF s.array THEN ParseMetalsLive(s.items, NoOz) ELSE NoOz
        orFallback(m) == IF oz[m] # 0 THEN oz[m] ELSE fallbackPricesOz[m]
        fail(why) == [threw |-> TRUE, error |-> [api |-> "metals.live", sym |-> "", why |-> why],
                      pricesOz |-> fallbackPricesOz, prices |-> fallbackPrices]
    IN IF ~s.net THEN fail("fetch failed")
       ELSE IF ~s.ok THEN fail("HTTP")
       ELSE IF ~s.json THEN fail("invalid json")
       ELSE IF oz["gold"] = 0 THEN fail("no gold price found")
       ELSE [threw |-> FALSE, error |-> [api |-> "", sym |-> "", why |-> ""],
             pricesOz |-> oz,
             prices |-> [m \in Metals |-> DivTroyOz(orFallback(m))]]

\* ------------------------------------------- redis-state (alert-service.ts)
Null == [none |-> TRUE]

\* getStalePrices: the stale copy, or null when it is absent or the read fails;
\* its own try/catch lets nothing out.  The copy is a function from the metals
\* the stored JSON has a price for; the other fields come back undefined.
getStalePrices(staleKey, readOk) ==
    [threw |-> FALSE, val |-> IF readOk THEN staleKey ELSE Null]

\* updateSharedPriceCache: SETEX of the 60 s cache, then SET of the stale copy;
\* the first write that fails ends the call, and the failure is logged: its own
\* try/catch lets nothing out.  written: the cache key has been written;
\* staleWritten: the stale copy has been written.
updateSharedPriceCache(prices, setexOk, setOk) ==
    [threw |-> FALSE, attempted |-> TRUE, written |-> setexOk,
     staleWritten |-> setexOk /\ setOk, prices |-> prices]

NoWrite == [threw |-> FALSE, attempted |-> FALSE, written |-> FALSE,
            staleWritten |-> FALSE, prices |-> fallbackPrices]

\* ----------------------------------------------------- price-fetcher.ts
\* fetchPrices.  in.hasKey, in.gold: the primary feed; in.live: the secondary
\* feed; in.stale, in.staleOk: the stale copy and whether the store answers the
\* read; in.cacheOk, in.staleSetOk: whether the store takes the write of the
\* cache key, and of the stale copy.
\* Each of the three try blocks either returns from fetchPrices (returned), or
\* falls through with the reasons its catch pushed (errors); raised says that an
\* exception left the block, which the catch of each block excludes.
NoError == [api |-> "", sym |-> "", why |-> ""]

\* Lines 122-143.
tryGoldApi(in) ==
    LET g == fetchFromGoldApi(in.hasKey, in.gold)
        w == IF g.threw THEN NoWrite
             ELSE updateSharedPriceCache(g.prices, in.cacheOk, in.staleSetOk)
    IN IF g.threw \/ w.threw
       THEN [returned |-> FALSE, raised |-> FALSE,
             errors |-> <<IF g.threw THEN g.error
                          ELSE [api |-> "GoldAPI", sym |-> "", why |-> "cache"]>>,
             prices |-> fallbackPrices, pricesOz |-> fallbackPricesOz, cache |-> NoWrite,
             requests |-> g.requests]
       ELSE [returned |-> TRUE, raised |-> FALSE, errors |-> <<>>,
             prices |-> g.prices, pricesOz |-> g.pricesOz, cache |-> w,
             requests |-> g.requests]

\* The second block without its catch: the exception of the secondary feed
\* leaves the call.
tryMetalsLiveUncaught(in) ==
    LET l == fetchFromMetalsLive(in.live)
    IN [returned |-> ~l.threw, raised |-> l.threw, errors |-> <<>>,
        prices |-> l.prices, pricesOz |-> l.pricesOz, cache |-> NoWrite]

\* Lines 146-166.
tryMetalsLive(in) ==
    LET l == fetchFromMetalsLive(in.live)
        w == IF l.threw THEN NoWrite
             ELSE updateSharedPriceCache(l.prices, in.cacheOk, in.staleSetOk)
    IN IF l.threw \/ w.threw
       THEN [returned |-> FALSE, raised |-> FALSE,
             errors |-> <<IF l.threw THEN l.error
                          ELSE [api |-> "metals.live", sym |-> "", why |-> "cache"]>>,
             prices |-> fallbackPrices, pricesOz |-> fallbackPricesOz, cache |-> NoWrite]
       ELSE [returned |-> TRUE, raised |-> FALSE, errors |-> <<>>,
             prices |-> l.prices, pricesOz |-> l.pricesOz, cache |-> w]

\* The third block without the test of the gold price: any stale copy is taken.
tryStaleUnchecked(in) ==
    LET st == getStalePrices(in.stale, in.staleOk)
    IN [returned |-> st.val # Null, raised |-> FALSE, errors |-> <<>>,
        prices |-> IF st.val # Null THEN st.val ELSE fallbackPrices,
        pricesOz |-> fallbackPricesOz, cache |-> NoWrite]

\* The third block writing what it returns to the shared cache, as the first
\* two blocks do.
tryStaleCaching(in) ==
    LET st == getStalePrices(in.stale, in.staleOk)
    IN IF st.val # Null /\ st.val.gold > 0
       THEN [returned |-> TRUE, raised |-> FALSE, errors |-> <<>>,
             prices |-> st.val,
             pricesOz |-> [m \in DOMAIN st.val |-> (st.val[m] * 62207) \div 200000],
             cache |-> updateSharedPriceCache(st.val, in.cacheOk, in.staleSetOk)]
       ELSE [returned |-> FALSE, raised |-> FALSE, errors |-> <<>>,
             prices |-> fallbackPrices, pricesOz |-> fallbackPricesOz, cache |-> NoWrite]

\* Lines 169-192: a stale copy that is absent, or whose gold price is not
\* positive, falls through without a reason.  Only the gold price is looked at;
\* the product of a missing price and TROY_OZ is not a number, and is left out.
tryStale(in) ==
    LET st == getStalePrices(in.stale, in.staleOk)
    IN IF st.threw
       THEN [returned |-> FALSE, raised |-> FALSE,
             errors |-> <<[api |-> "Redis stale", sym |-> "", why |-> "read"]>>,
             prices |-> fallbackPrices, pricesOz |-> fallbackPricesOz, cache |-> NoWrite]
       ELSE IF st.val # Null /\ st.val.gold > 0
       THEN [returned |-> TRUE, raised |-> FALSE, errors |-> <<>>,
             prices |-> st.val,
             pricesOz |-> [m \in DOMAIN st.val |-> (st.val[m] * 62207) \div 200000],
             cache |-> NoWrite]
       ELSE [returned |-> FALSE, raised |-> FALSE, errors |-> <<>>,
             prices |-> fallbackPrices, pricesOz |-> fallbackPricesOz, cache |-> NoWrite]

\* The FetchResult, and beside it what the call did: contacted (the sources
\* tried, in order), cache (the cache write), raised (an exception left the
\* call), requests (the requests sent to the primary feed).
FetchResult(source, block, errors, contacted) ==
    [source |-> source, prices |-> block.prices, pricesOz |-> block.pricesOz,
     errors |-> errors, contacted |-> contacted, cache |-> block.cache, raised |-> FALSE]

Raised(contacted) ==
    [source |-> "", prices |-> fallbackPrices, pricesOz |-> fallbackPricesOz,
     errors |-> <<>>, contacted |-> contacted, cache |-> NoWrite, raised |-> TRUE]

\* Lines 117-205.
fetchPrices(in) ==
    LET a == tryGoldApi(in)
        b == tryMetalsLive(in)
        c == tryStale(in)
        hardcoded == [prices |-> fallbackPrices, pricesOz |-> fallbackPricesOz,
                      cache |-> NoWrite]
        res ==
          IF a.raised THEN Raised(<<"goldapi">>)
          ELSE IF a.returned THEN FetchResult("goldapi", a, <<>>, <<"goldapi">>)
          ELSE IF b.raised THEN Raised(<<"goldapi", "metals-live">>)
          ELSE IF b.returned
          THEN FetchResult("metals-live", b, a.errors, <<"goldapi", "metals-live">>)
          ELSE IF c.raised THEN Raised(<<"goldapi", "metals-live", "redis-stale">>)
          ELSE IF c.returned
          THEN FetchResult("redis-stale", c, a.errors \o b.errors,
                           <<"goldapi", "metals-live", "redis-stale">>)
          ELSE FetchResult("hardcoded", hardcoded, a.errors \o b.errors \o c.errors,
                           <<"goldapi", "metals-live", "redis-stale", "hardcoded">>)
    IN res @@ [requests |-> a.requests]

\* ----------------------------------------------------- price-analyzer.ts
\* CONFIG.deviationThresholdPct = 0.5 and CONFIG.anomalyThresholdPct = 5.0 are
\* compared without division: d / on * 100 > 0.5 iff d * 200 > on, and
\* d / prev * 100 > 5 iff d * 20 > prev.  CONFIG.staleThresholdMs = 600 000 ms
\* is 2 units of time.
staleThresholdUnits == 2

Abs(x) == IF x < 0 THEN 0 - x ELSE x

\* Math.round(x * 100) / 100 of the percentage n / d * 100, in hundredths of a
\* percent (d > 0; Math.round(y) is the floor of y + 1/2).
RoundPct(n, d) == (2 * n * 10000 + d) \div (2 * d)

\* The deviation test taken inclusively.
ExceedsDeviationInclusive(current, onChain) == Abs(current - onChain) * 200 >= onChain

\* Line 45: deviation > CONFIG.deviationThresholdPct.
ExceedsDeviation(current, onChain) == Abs(current - onChain) * 200 > onChain

\* The anomaly test taken inclusively.
ExceedsAnomalyInclusive(current, previous) == Abs(current - previous) * 20 >= previous

\* Line 68: absChange > CONFIG.anomalyThresholdPct.
ExceedsAnomaly(current, previous) == Abs(current - previous) * 20 > previous

RECURSIVE SelectSeq2(_, _)
SelectSeq2(s, keep) ==
    IF s = <<>> THEN <<>>
    ELSE IF Head(s) \in keep THEN <<Head(s)>> \o SelectSeq2(Tail(s), keep)
    ELSE SelectSeq2(Tail(s), keep)

\* analyzePrices(currentPrices, onChainPrices); lastFetch and lastUpdate are what
\* getLastFetch() and getLastUpdate() return (Null on a miss or a failed read),
\* t is Date.now().
deviationOf(current, onChain) ==
    IF onChain <= 0 THEN 10000 ELSE RoundPct(Abs(current - onChain), onChain)

\* The deviation check without the case of an unset on-chain price.
metalNeedsUpdateSkipUnset(current, onChain) ==
    IF onChain <= 0 THEN FALSE ELSE ExceedsDeviation(current, onChain)

metalNeedsUpdate(current, onChain) ==
    IF onChain <= 0 THEN TRUE ELSE ExceedsDeviation(current, onChain)

spikeAnomalies(currentPrices, lastFetch) ==
    IF lastFetch = Null THEN <<>>
    ELSE LET hit == {m \in Metals : lastFetch.prices[m] > 0
                        /\ ExceedsAnomaly(currentPrices[m], lastFetch.prices[m])}
             one(m) == [type |-> IF currentPrices[m] > lastFetch.prices[m]
                                 THEN "price_spike" ELSE "price_crash",
                        metal |-> m, severity |-> "critical",
                        value |-> RoundPct(currentPrices[m] - lastFetch.prices[m],
                                           lastFetch.prices[m])]
             order == SelectSeq2(MetalOrder, hit)
         IN [i \in 1..Len(order) |-> one(order[i])]

\* The staleness test taken inclusively.
staleAnomaliesInclusive(lastUpdate, t) ==
    IF lastUpdate # Null /\ t - lastUpdate.timestamp >= staleThresholdUnits
    THEN <<[type |-> "stale_data", metal |-> "", severity |-> "warning",
            value |-> (t - lastUpdate.timestamp) * 5]>>
    ELSE <<>>

\* Lines 82-94; value is the elapsed time in minutes (5 to the unit of time).
staleAnomalies(lastUpdate, t) ==
    IF lastUpdate # Null /\ t - lastUpdate.timestamp > staleThresholdUnits
    THEN <<[type |-> "stale_data", metal |-> "", severity |-> "warning",
            value |-> (t - lastUpdate.timestamp) * 5]>>
    ELSE <<>>

analyzePrices(currentPrices, onChainPrices, lastFetch, lastUpdate, t) ==
    LET metalsToUpdate ==
            SelectSeq2(MetalOrder,
                {m \in Metals : metalNeedsUpdate(currentPrices[m], onChainPrices[m])})
    IN [anomalies |-> spikeAnomalies(currentPrices, lastFetch) \o staleAnomalies(lastUpdate, t),
        deviations |-> [m \in Metals |-> deviationOf(currentPrices[m], onChainPrices[m])],
        shouldUpdate |-> Len(metalsToUpdate) > 0,
        metalsToUpdate |-> metalsToUpdate]

\* ------------------------------------------------------ alert-service.ts
AlertTypes == {"oracle_stale", "price_anomaly", "source_failure", "update_failure",
               "watcher_error"}

\* The alert type sendAnomalyAlerts gives an anomaly.
alertTypeOf(anomalyType) ==
    CASE anomalyType \in {"price_spike", "price_crash"} -> "price_anomaly"
      [] anomalyType = "source_failure" -> "source_failure"
      [] anomalyType = "stale_data" -> "oracle_stale"
      [] OTHER -> "watcher_error"

\* CONFIG.alertCooldownSeconds = 300 s is 1 unit of time.
alertCooldownUnits == 1

\* sendAlert with the cooldown key set before the notification is posted.
sendAlertMarkFirst(type, cd, t, readOk, postOk, setOk) ==
    LET marked == [cd EXCEPT ![type] = t + alertCooldownUnits]
    IN IF ~readOk THEN [threw |-> TRUE, sent |-> FALSE, requested |-> FALSE,
                        posted |-> FALSE, cd |-> cd]
       ELSE IF cd[type] > t THEN [threw |-> FALSE, sent |-> FALSE, requested |-> FALSE,
                                  posted |-> FALSE, cd |-> cd]
       ELSE IF ~setOk THEN [threw |-> FALSE, sent |-> FALSE, requested |-> FALSE,
                            posted |-> FALSE, cd |-> cd]
       ELSE [threw |-> FALSE, sent |-> postOk, requested |-> TRUE, posted |-> postOk,
             cd |-> marked]

\* sendAlert(alert) at time t with the cooldown keys cd (per type, the time the
\* key expires; a key is present while that time is in the future).
\* readOk, setOk: whether the store answers isAlertOnCooldown, setAlertCooldown;
\* postOk: whether the notification endpoint answers 2xx.
\* The cooldown read is made before the try block; the rest is inside it.
\* threw: the call raised; sent: it returned true; requested: the POST was
\* made; posted: it was answered 2xx.
sendAlert(type, cd, t, readOk, postOk, setOk) ==
    IF ~readOk THEN [threw |-> TRUE, sent |-> FALSE, requested |-> FALSE,
                     posted |-> FALSE, cd |-> cd]
    ELSE IF cd[type] > t THEN [threw |-> FALSE, sent |-> FALSE, requested |-> FALSE,
                               posted |-> FALSE, cd |-> cd]
    ELSE IF ~postOk THEN [threw |-> FALSE, sent |-> FALSE, requested |-> TRUE,
                          posted |-> FALSE, cd |-> cd]
    ELSE IF ~setOk THEN [threw |-> FALSE, sent |-> FALSE, requested |-> TRUE,
                         posted |-> TRUE, cd |-> cd]
    ELSE [threw |-> FALSE, sent |-> TRUE, requested |-> TRUE, posted |-> TRUE,
          cd |-> [cd EXCEPT ![type] = t + alertCooldownUnits]]

\* ------------------------------------------------------ oracle-updater.ts
\* Math.round(a / b) for b > 0: the floor of a / b + 1/2.
roundDiv(a, b) == (2 * a + b) \div (2 * b)

\* toE6 of a price of n units, perDollar units to the dollar:
\* Math.round(price * 1 000 000).
E6 == 1000000
toE6Of(n, perDollar) == roundDiv(n * E6, perDollar)

\* toE6 of a price in cents: Math.round(price * 1 000 000) is exact.
toE6(price) == price * 10000

\* The reader of the per-kilogram contract: E6 per kilogram to cents per gram.
fromE6PerKg(val) == val \div 10000000

\* fromE6 (oracle-reader): Number(val) / 1 000 000, back to cents.
fromE6(val) == val \div 10000

\* utils/retry.ts, as updateOracle calls it: maxRetries 3, baseDelayMs 2000 and
\* the default maxDelayMs 15000.
maxRetries == 3
baseDelayMs == 2000
maxDelayMs == 15000

Min(a, b) == IF a < b THEN a ELSE b

\* The delay without its cap.
retryDelayUncapped(attempt) == baseDelayMs * 2 ^ attempt

\* Line 47: Math.min(baseDelayMs * 2 ^ attempt, maxDelayMs).
retryDelay(attempt) == Min(baseDelayMs * 2 ^ attempt, maxDelayMs)

\* The loop of withRetry from `attempt` on: for (attempt; attempt <= max; ..).
\* attempts[k] is whether the k-th call of fn returns.  calls: the calls of fn
\* made; delays: the delays waited, in order.
RECURSIVE withRetryFrom(_, _, _)
withRetryFrom(attempts, attempt, max) ==
    IF attempts[attempt + 1] THEN [ok |-> TRUE, calls |-> 1, delays |-> <<>>]
    ELSE IF attempt = max THEN [ok |-> FALSE, calls |-> 1, delays |-> <<>>]
    ELSE LET rest == withRetryFrom(attempts, attempt + 1, max)
         IN [ok |-> rest.ok, calls |-> 1 + rest.calls,
             delays |-> <<retryDelay(attempt)>> \o rest.delays]

withRetry(attempts, max) == withRetryFrom(attempts, 0, max)

\* The try block of updateOracle, lines 28-71.  hasKey: CONFIG.privateKey is
\* set; attempts[k]: the k-th call of setAllPrices gets the transaction
\* submitted; waitOk: tx.wait() returned.  Line 37 reads the price of each of
\* the four metals before the submission.  threw: the block was left by an
\* exception, whose message is error.
NotSubmitted(error) ==
    [threw |-> TRUE, error |-> error, submissions |-> 0, delays |-> <<>>, waited |-> FALSE]

Submitted(s, waitOk) ==
    IF ~s.ok
    THEN [threw |-> TRUE, error |-> "setAllPrices failed", submissions |-> s.calls,
          delays |-> s.delays, waited |-> FALSE]
    ELSE [threw |-> ~waitOk, error |-> IF waitOk THEN "" ELSE "wait failed",
          submissions |-> s.calls, delays |-> s.delays, waited |-> TRUE]

\* The try block with the signing key tested after the submission.
updateOracleTryKeyLast(prices, hasKey, attempts, waitOk) ==
    IF DOMAIN prices # Metals THEN NotSubmitted("toFixed of undefined")
    ELSE LET r == Submitted(withRetry(attempts, maxRetries), waitOk)
         IN IF hasKey THEN r
            ELSE [r EXCEPT !.threw = TRUE, !.error = "PRIVATE_KEY not set"]

updateOracleTry(prices, hasKey, attempts, waitOk) ==
    IF ~hasKey THEN NotSubmitted("PRIVATE_KEY not set")
    ELSE IF DOMAIN prices # Metals THEN NotSubmitted("toFixed of undefined")
    ELSE Submitted(withRetry(attempts, maxRetries), waitOk)

\* updateOracle without its catch block.
updateOracleUncaught(prices, hasKey, attempts, mined, waitOk) ==
    LET r == updateOracleTry(prices, hasKey, attempts, waitOk)
    IN [success |-> ~r.threw, raised |-> r.threw, error |-> r.error,
        submissions |-> r.submissions, delays |-> r.delays, waited |-> r.waited,
        written |-> r.waited /\ mined,
        e6 |-> [m \in DOMAIN prices |-> toE6(prices[m])]]

\* updateOracle, lines 23-82: the catch block turns every exception of the try
\* block into a result.  mined: the transaction submitted changed the contract.
updateOracle(prices, hasKey, attempts, mined, waitOk) ==
    LET r == updateOracleTry(prices, hasKey, attempts, waitOk)
    IN [success |-> ~r.threw, raised |-> FALSE, error |-> r.error,
        submissions |-> r.submissions, delays |-> r.delays, waited |-> r.waited,
        written |-> r.waited /\ mined,
        e6 |-> [m \in DOMAIN prices |-> toE6(prices[m])]]

\* ======================================================================
\* State
\* ======================================================================
VARIABLES
    isRunning,      \* scheduler.ts: the in-progress flag
    tk,             \* per tick invocation: its position and its locals
    killSwitch,     \* store: oracle:watcher:kill_switch
    errorCount,     \* store: oracle:watcher:error_count
    lastFetch,      \* store: oracle:watcher:last_fetch
    lastUpdate,     \* store: oracle:watcher:last_update
    status,         \* store: oracle:watcher:status (its state field)
    priceHistory,   \* store: oracle:watcher:price_history (its length)
    alertCooldown,  \* store: oracle:watcher:alert:cooldown:<type> (expiry time)
    override,       \* store: oracle:watcher:override:prices and :expires
    sharedPrice,    \* store: metal:prices:cache and metal:prices:stale
    chain,          \* the oracle contract's prices (E6)
    now,            \* the wall clock
    faults,         \* the operations that have failed so far
    fetchIn,        \* the inputs of a single fetchPrices call
    fetchOut,       \* and its result
    analyzeIn,      \* the inputs of a single analyzePrices call
    analyzeOut,     \* and its result
    updateIn,       \* the inputs of a single updateOracle call
    updateOut,      \* and its result
    alertIn,        \* the anomalies of a single sendAnomalyAlerts call
    alertOut,       \* and the sendAlert calls made so far, with their results
    overrideCalls   \* the override set request and the override reads under way

storeVars == <<killSwitch, errorCount, lastFetch, lastUpdate, status, priceHistory,
               alertCooldown, override, sharedPrice>>
fetchVars == <<fetchIn, fetchOut, analyzeIn, analyzeOut, updateIn, updateOut, alertIn,
               alertOut, overrideCalls>>
vars == <<isRunning, tk, killSwitch, errorCount, lastFetch, lastUpdate, status,
          priceHistory, alertCooldown, override, sharedPrice, chain, now, faults,
          fetchIn, fetchOut, analyzeIn, analyzeOut, updateIn, updateOut, alertIn, alertOut,
          overrideCalls>>

Ticks == 1..MaxTicks

\* redis-state.ts pushPriceSnapshot: LTRIM 0 999 keeps 1000 entries.
historyMax == 1000

NoPrices == [m \in Metals |-> 0]

\* No override in the store.  prices and expires are the two keys; due is the
\* time the operator asked the override to end at (kept for the properties, no
\* key of the store).
NoOverride == [prices |-> Null, expires |-> Null, due |-> 0]

\* The locals of a tick invocation that is not running.  errorCount is the
\* constant of line 126, 0 until incrementErrorCount() has returned; threw: an
\* exception has left the catch block; calls: the operations the invocation
\* has called so far, in order; sincePrevious: the spikes and crashes between
\* the record of the preceding fetch, as it was when fetchPrices() returned,
\* and the prices fetched (a history of the invocation, not a local of it);
\* readFailed: the catch block of line 94 has run; snapshot: the source of the
\* snapshot pushed at step 9.
TickIdle ==
    [pc |-> "idle", killSwitchActive |-> FALSE, fetchedPrices |-> NoPrices,
     priceSource |-> "", onChainPrices |-> NoPrices, anomalies |-> <<>>,
     alertIdx |-> 0, shouldUpdate |-> FALSE, updateResult |-> "none", errorCount |-> 0,
     threw |-> FALSE, calls |-> <<>>, sincePrevious |-> <<>>, readFailed |-> FALSE,
     snapshot |-> ""]

\* ---------------------------------------------------------------- inputs
\* An operation may fail while the behaviour has failures left.
Budget == MaxFaults - faults
Cost(ok) == IF ok THEN 0 ELSE 1
Outcomes == IF Budget > 0 THEN BOOLEAN ELSE {TRUE}

\* The answers of the feeds during a tick.
OzLive == [gold |-> 5200, silver |-> 89, platinum |-> 2280, palladium |-> 1820]

GoldOk(oz) == [i \in 1..4 |-> [net |-> TRUE, status |-> 200, json |-> TRUE,
                                price |-> oz[goldApiSymbols[symbols[i]]]]]
GoldRateLimited(oz, at) == [GoldOk(oz) EXCEPT ![at].status = 429]

LiveOk(oz) == [net |-> TRUE, ok |-> TRUE, json |-> TRUE, array |-> TRUE,
               items |-> [i \in 1..4 |-> [metal |-> MetalOrder[i], price |-> oz[MetalOrder[i]]]]]
LiveDown == [net |-> TRUE, ok |-> FALSE, json |-> FALSE, array |-> FALSE, items |-> <<>>]

\* What the outside does during one fetchPrices call of a tick.  An operation
\* the call does not reach is not counted as failed.
TickFetchInputs ==
    {i \in [goldOk : BOOLEAN, liveOk : BOOLEAN, staleOk : BOOLEAN, cacheOk : BOOLEAN,
            staleSetOk : BOOLEAN, setOk : BOOLEAN] :
        /\ i.goldOk => i.liveOk
        /\ (i.goldOk \/ i.liveOk) => i.staleOk
        /\ (~i.goldOk /\ ~i.liveOk) => i.cacheOk
        /\ ~i.cacheOk => i.staleSetOk
        /\ Cost(i.goldOk) + Cost(i.liveOk) + Cost(i.staleOk) + Cost(i.cacheOk)
             + Cost(i.staleSetOk) + Cost(i.setOk) <= Budget}

\* What the store and the notification endpoint do during one sendAlert call.
AlertInputs(type) ==
    {i \in [readOk : BOOLEAN, postOk : BOOLEAN, setOk : BOOLEAN] :
        /\ (~i.readOk \/ alertCooldown[type] > now) => i.postOk
        /\ (~i.readOk \/ alertCooldown[type] > now \/ ~i.postOk) => i.setOk
        /\ Cost(i.readOk) + Cost(i.postOk) + Cost(i.setOk) <= Budget}
AlertCost(i) == Cost(i.readOk) + Cost(i.postOk) + Cost(i.setOk)

\* What the chain does with one updateOracle call: the transaction is mined and
\* confirmed; it is never submitted; it is mined but the wait for it fails.
UpdateInputs ==
    {[submitted |-> TRUE, mined |-> TRUE, waitOk |-> TRUE]}
    \cup (IF Budget > 0
          THEN {[submitted |-> FALSE, mined |-> FALSE, waitOk |-> FALSE],
                [submitted |-> TRUE, mined |-> TRUE, waitOk |-> FALSE]}
          ELSE {})

\* ------------------------------------------------------------------ Init
\* The store outlives the process: the counter and the last update record are
\* what an earlier run left.
InitErrorCounts == {0, alertAfterErrors - 1, maxConsecutiveErrors - 1}

InitStore ==
    /\ killSwitch = FALSE
    /\ errorCount \in InitErrorCounts
    /\ lastFetch = Null
    /\ lastUpdate \in {Null, [timestamp |-> 0 - staleThresholdUnits - 1, source |-> "goldapi"]}
    /\ status = "running"
    /\ priceHistory = historyMax - MaxHistoryFree
    /\ alertCooldown = [a \in AlertTypes |-> 0]
    /\ override = NoOverride
    /\ sharedPrice = [cache |-> Null, stale |-> Null]

Init ==
    /\ isRunning = FALSE
    /\ tk = [t \in Ticks |-> TickIdle]
    /\ InitStore
    /\ chain = NoPrices
    /\ now = 0
    /\ faults = 0
    /\ fetchIn = Null
    /\ fetchOut = Null
    /\ analyzeIn = Null
    /\ analyzeOut = Null
    /\ updateIn = Null
    /\ updateOut = Null
    /\ alertIn = Null
    /\ alertOut = Null
    /\ overrideCalls = Null

\* ======================================================================
\* scheduler.ts: tick
\* ======================================================================
Call(r, name) == [r EXCEPT !.calls = Append(@, name)]
At(r, label) == [r EXCEPT !.pc = label]
Set(t, r) == tk' = [tk EXCEPT ![t] = r]
Fail(ok) == faults' = faults + Cost(ok)

\* The invocation slots are taken in order.
FreeSlot(t) == tk[t].pc = "idle" /\ \A u \in Ticks : u < t => tk[u].pc # "idle"

\* tick() without the test of the in-progress flag.
tickEnterUnguarded(t) ==
    /\ FreeSlot(t)
    /\ isRunning' = TRUE
    /\ Set(t, At(TickIdle, "getKillSwitch"))
    /\ UNCHANGED <<storeVars, chain, now, faults, fetchVars>>

\* tick(), lines 35-42: a call while a tick is in flight returns at once.
tickEnter(t) ==
    /\ FreeSlot(t)
    /\ IF isRunning
       THEN /\ Set(t, At(TickIdle, "skipped"))
            /\ UNCHANGED isRunning
       ELSE /\ isRunning' = TRUE
            /\ Set(t, At(TickIdle, "getKillSwitch"))
    /\ UNCHANGED <<storeVars, chain, now, faults, fetchVars>>

\* setInterval(tick, CONFIG.pollIntervalMs), and the first call of startScheduler.
TimerFire(t) == tickEnter(t)

\* forceTick(), called by POST /admin/force-update.
ForceTick(t) == tickEnter(t)

\* The skipped call has returned.
SkipReturn(t) ==
    /\ tk[t].pc = "skipped"
    /\ Set(t, TickIdle)
    /\ UNCHANGED <<isRunning, storeVars, chain, now, faults, fetchVars>>

\* Step 1, line 46: getKillSwitch() reads false when the store fails.
GetKillSwitch(t) ==
    /\ tk[t].pc = "getKillSwitch"
    /\ \E ok \in Outcomes :
         /\ Set(t, At(Call([tk[t] EXCEPT !.killSwitchActive = ok /\ killSwitch],
                           "getKillSwitch"), "getOverridePrices"))
         /\ Fail(ok)
    /\ UNCHANGED <<isRunning, storeVars, chain, now, fetchVars>>

\* Step 3 with the fetch chain run whatever getOverridePrices() returned.
afterOverrideReadAlwaysFetch(overridePrices) == "fetchPrices"

\* Lines 55-60: with an override the tick goes on at step 4, without it at
\* fetchPrices().
afterOverrideRead(overridePrices) ==
    IF overridePrices = Null THEN "fetchPrices" ELSE "readOraclePrices"

\* Step 2, line 49: getOverridePrices() deletes an expired override and reads
\* null when the store fails.
GetOverridePrices(t) ==
    /\ tk[t].pc = "getOverridePrices"
    /\ \E ok \in Outcomes :
         LET expired == override.expires # Null /\ override.expires.at < now
             r == Call(tk[t], "getOverridePrices")
         IN /\ Fail(ok)
            /\ IF ~ok
               THEN /\ Set(t, At(r, "fetchPrices"))
                    /\ UNCHANGED override
               ELSE IF expired
               THEN /\ override' = NoOverride
                    /\ Set(t, At(r, "fetchPrices"))
               ELSE /\ UNCHANGED override
                    /\ IF override.prices = Null
                       THEN Set(t, At(r, afterOverrideRead(Null)))
                       ELSE Set(t, At([r EXCEPT !.fetchedPrices = override.prices,
                                                !.priceSource = "override"],
                                      afterOverrideRead(override.prices)))
    /\ UNCHANGED <<isRunning, killSwitch, errorCount, lastFetch, lastUpdate, status,
                   priceHistory, alertCooldown, sharedPrice, chain, now, fetchVars>>

\* Step 3, lines 60-70: fetchPrices(), then setLastFetch(), which raises when
\* the store fails.
FetchPrices(t) ==
    /\ tk[t].pc = "fetchPrices"
    /\ \E i \in TickFetchInputs :
         LET res == fetchPrices([hasKey |-> TRUE,
                                 gold |-> IF i.goldOk THEN GoldOk(OzLive)
                                          ELSE GoldRateLimited(OzLive, 2),
                                 live |-> IF i.liveOk THEN LiveOk(OzLive) ELSE LiveDown,
                                 stale |-> sharedPrice.stale, staleOk |-> i.staleOk,
                                 cacheOk |-> i.cacheOk, staleSetOk |-> i.staleSetOk])
             r == Call(Call([tk[t] EXCEPT !.fetchedPrices = res.prices,
                                          !.priceSource = res.source,
                                          !.sincePrevious =
                                              spikeAnomalies(res.prices, lastFetch)],
                            "fetchPrices"), "setLastFetch")
         IN /\ sharedPrice' =
                  [cache |-> IF res.cache.written THEN res.cache.prices
                             ELSE sharedPrice.cache,
                   stale |-> IF res.cache.staleWritten THEN res.cache.prices
                             ELSE sharedPrice.stale]
            /\ faults' = faults + Cost(i.goldOk) + Cost(i.liveOk) + Cost(i.staleOk)
                           + Cost(i.cacheOk) + Cost(i.staleSetOk) + Cost(i.setOk)
            /\ IF i.setOk
               THEN /\ lastFetch' = [prices |-> res.prices, source |-> res.source,
                                     errors |-> res.errors]
                    /\ Set(t, At(r, IF res.source = "hardcoded" /\ Len(res.errors) > 0
                                    THEN "alertSourceFailure" ELSE "readOraclePrices"))
               ELSE /\ UNCHANGED lastFetch
                    /\ Set(t, At(r, "catch"))
    /\ UNCHANGED <<isRunning, killSwitch, errorCount, lastUpdate, status, priceHistory,
                   alertCooldown, override, chain, now, fetchVars>>

\* One sendAlert call of the tick at position `from`; on return the tick goes
\* to `to`, and to the catch block when the call raises.
SendAlertStep(t, from, type, to) ==
    /\ tk[t].pc = from
    /\ \E i \in AlertInputs(type) :
         LET a == sendAlert(type, alertCooldown, now, i.readOk, i.postOk, i.setOk)
             r == Call(tk[t], "sendAlert_" \o type)
         IN /\ alertCooldown' = a.cd
            /\ faults' = faults + AlertCost(i)
            /\ Set(t, At(r, IF a.threw THEN "catch" ELSE to))
    /\ UNCHANGED <<isRunning, killSwitch, errorCount, lastFetch, lastUpdate, status,
                   priceHistory, override, sharedPrice, chain, now, fetchVars>>

\* Lines 73-81.
AlertSourceFailure(t) ==
    SendAlertStep(t, "alertSourceFailure", "source_failure", "readOraclePrices")

\* Step 4, lines 86-97: all zero when the read fails.
ReadOraclePrices(t) ==
    /\ tk[t].pc = "readOraclePrices"
    /\ \E ok \in Outcomes :
         /\ Set(t, At(Call([tk[t] EXCEPT !.onChainPrices =
                               IF ok THEN [m \in Metals |-> fromE6(chain[m])] ELSE NoPrices,
                                            !.readFailed = ~ok],
                           "readOraclePrices"), "analyzePrices"))
         /\ Fail(ok)
    /\ UNCHANGED <<isRunning, storeVars, chain, now, fetchVars>>

\* Step 5, line 100: getLastFetch() and getLastUpdate() read null when the store
\* fails.
AnalyzePrices(t) ==
    /\ tk[t].pc = "analyzePrices"
    /\ \E fetchOk \in Outcomes, updateOk \in Outcomes :
         LET a == analyzePrices(tk[t].fetchedPrices, tk[t].onChainPrices,
                                IF fetchOk THEN lastFetch ELSE Null,
                                IF updateOk THEN lastUpdate ELSE Null, now)
             r == Call([tk[t] EXCEPT !.anomalies = a.anomalies,
                                     !.shouldUpdate = a.shouldUpdate], "analyzePrices")
         IN /\ Cost(fetchOk) + Cost(updateOk) <= Budget
            /\ faults' = faults + Cost(fetchOk) + Cost(updateOk)
            /\ Set(t, At([r EXCEPT !.alertIdx = 1],
                         IF Len(a.anomalies) > 0 THEN "sendAnomalyAlerts" ELSE "updateOracle"))
    /\ UNCHANGED <<isRunning, storeVars, chain, now, fetchVars>>

\* Step 6, lines 103-105: sendAnomalyAlerts() sends one alert per anomaly, in
\* the order of the list.
SendAnomalyAlerts(t) ==
    /\ tk[t].pc = "sendAnomalyAlerts"
    /\ LET n == tk[t].alertIdx
           type == alertTypeOf(tk[t].anomalies[n].type)
       IN \E i \in AlertInputs(type) :
            LET a == sendAlert(type, alertCooldown, now, i.readOk, i.postOk, i.setOk)
                r == Call([tk[t] EXCEPT !.alertIdx = n + 1], "sendAlert_" \o type)
            IN /\ alertCooldown' = a.cd
               /\ faults' = faults + AlertCost(i)
               /\ Set(t, At(r, IF a.threw THEN "catch"
                               ELSE IF n < Len(tk[t].anomalies) THEN "sendAnomalyAlerts"
                               ELSE "updateOracle"))
    /\ UNCHANGED <<isRunning, killSwitch, errorCount, lastFetch, lastUpdate, status,
                   priceHistory, override, sharedPrice, chain, now, fetchVars>>

\* The update decision without the kill switch.
mustUpdateIgnoringSwitch(shouldUpdate, killSwitchActive) == shouldUpdate

\* Step 7, lines 108-114 and 150-152: the update is submitted when the analysis
\* asks for it and the kill switch read in step 1 was off.
mustUpdate(shouldUpdate, killSwitchActive) == shouldUpdate /\ ~killSwitchActive

UpdateOracle(t) ==
    /\ tk[t].pc = "updateOracle"
    /\ IF mustUpdate(tk[t].shouldUpdate, tk[t].killSwitchActive)
       THEN \E i \in UpdateInputs :
              LET u == updateOracle(tk[t].fetchedPrices, TRUE,
                                    [k \in 1..(maxRetries + 1) |-> i.submitted],
                                    i.mined, i.waitOk)
                  r == Call([tk[t] EXCEPT !.updateResult =
                                IF u.success THEN "success" ELSE "failure"], "updateOracle")
              IN /\ chain' = IF u.written THEN u.e6 ELSE chain
                 /\ Fail(u.success)
                 /\ Set(t, At(r, IF u.success THEN "setLastUpdate" ELSE "incrementErrorCount"))
       ELSE /\ Set(t, At(tk[t], "getErrorCount"))
            /\ UNCHANGED <<chain, faults>>
    /\ UNCHANGED <<isRunning, storeVars, now, fetchVars>>

\* Lines 117-123: setLastUpdate() raises when the store fails.
SetLastUpdate(t) ==
    /\ tk[t].pc = "setLastUpdate"
    /\ \E ok \in Outcomes :
         /\ Fail(ok)
         /\ IF ok
            THEN /\ lastUpdate' = [timestamp |-> now, source |-> tk[t].priceSource]
                 /\ Set(t, At(Call(tk[t], "setLastUpdate"), "resetErrorCount"))
            ELSE /\ UNCHANGED lastUpdate
                 /\ Set(t, At(Call(tk[t], "setLastUpdate"), "catch"))
    /\ UNCHANGED <<isRunning, killSwitch, errorCount, lastFetch, status, priceHistory,
                   alertCooldown, override, sharedPrice, chain, now, fetchVars>>

\* Line 124: resetErrorCount() raises when the store fails.
ResetErrorCount(t) ==
    /\ tk[t].pc = "resetErrorCount"
    /\ \E ok \in Outcomes :
         /\ Fail(ok)
         /\ IF ok
            THEN /\ errorCount' = 0
                 /\ Set(t, At(Call(tk[t], "resetErrorCount"), "getErrorCount"))
            ELSE /\ UNCHANGED errorCount
                 /\ Set(t, At(Call(tk[t], "resetErrorCount"), "catch"))
    /\ UNCHANGED <<isRunning, killSwitch, lastFetch, lastUpdate, status, priceHistory,
                   alertCooldown, override, sharedPrice, chain, now, fetchVars>>

\* The counter raised by two.
incrementErrorCountTwice(count) == count + 2

\* redis-state.ts incrementErrorCount: INCR of the counter key, and the value
\* it returns.
incrementErrorCount(count) == count + 1

\* The alert threshold taken strictly.
reachedAlertThresholdStrict(count) == count > alertAfterErrors

\* Lines 128 and 139: the thresholds on the count incrementErrorCount returned.
reachedAlertThreshold(count) == count >= alertAfterErrors
reachedPauseThreshold(count) == count >= maxConsecutiveErrors

\* The failure branch going back to the update after the increment.
afterIncrementRetry(count) == "updateOracle"

\* Where the failure branch goes after line 126 and after line 136.
afterIncrement(count) ==
    IF reachedAlertThreshold(count) THEN "alertUpdateFailure"
    ELSE IF reachedPauseThreshold(count) THEN "setKillSwitch"
    ELSE "getErrorCount"
afterUpdateFailureAlert(count) ==
    IF reachedPauseThreshold(count) THEN "setKillSwitch" ELSE "getErrorCount"

\* Line 126: incrementErrorCount() (INCR) raises when the store fails.
IncrementErrorCount(t) ==
    /\ tk[t].pc = "incrementErrorCount"
    /\ \E ok \in Outcomes :
         /\ Fail(ok)
         /\ IF ok
            THEN /\ errorCount' = incrementErrorCount(errorCount)
                 /\ Set(t, At(Call([tk[t] EXCEPT !.errorCount = incrementErrorCount(errorCount)],
                                   "incrementErrorCount"),
                              afterIncrement(incrementErrorCount(errorCount))))
            ELSE /\ UNCHANGED errorCount
                 /\ Set(t, At(Call(tk[t], "incrementErrorCount"), "catch"))
    /\ UNCHANGED <<isRunning, killSwitch, lastFetch, lastUpdate, status, priceHistory,
                   alertCooldown, override, sharedPrice, chain, now, fetchVars>>

\* Lines 128-136.
AlertUpdateFailure(t) ==
    SendAlertStep(t, "alertUpdateFailure", "update_failure",
                  afterUpdateFailureAlert(tk[t].errorCount))

\* Lines 139-140 and 200-203: the auto-pause sets the kill switch; setKillSwitch()
\* raises when the store fails.
SetKillSwitch(t) ==
    /\ tk[t].pc = "setKillSwitch"
    /\ \E ok \in Outcomes :
         /\ Fail(ok)
         /\ IF ok
            THEN /\ killSwitch' = TRUE
                 /\ Set(t, At(Call(tk[t], "setKillSwitch"), "alertWatcherError"))
            ELSE /\ UNCHANGED killSwitch
                 /\ Set(t, At(Call(tk[t], "setKillSwitch"), "catch"))
    /\ UNCHANGED <<isRunning, errorCount, lastFetch, lastUpdate, status, priceHistory,
                   alertCooldown, override, sharedPrice, chain, now, fetchVars>>

\* Lines 141-147.
AlertWatcherError(t) ==
    SendAlertStep(t, "alertWatcherError", "watcher_error", "getErrorCount")

\* Step 8, lines 156-160: getStatus() has a default, getErrorCount() raises when
\* the store fails.
GetErrorCount(t) ==
    /\ tk[t].pc = "getErrorCount"
    /\ \E ok \in Outcomes :
         LET r == Call(Call(tk[t], "getStatus"), "getErrorCount")
         IN /\ Fail(ok)
            /\ Set(t, At(r, IF ok THEN "setStatus" ELSE "catch"))
    /\ UNCHANGED <<isRunning, storeVars, chain, now, fetchVars>>

\* Lines 157-162: the state written is the one of the kill switch read in step 1.
statusState(killSwitchActive) == IF killSwitchActive THEN "paused" ELSE "running"

SetStatus(t) ==
    /\ tk[t].pc = "setStatus"
    /\ \E ok \in Outcomes :
         /\ Fail(ok)
         /\ IF ok
            THEN /\ status' = statusState(tk[t].killSwitchActive)
                 /\ Set(t, At(Call(tk[t], "setStatus"), "pushPriceSnapshot"))
            ELSE /\ UNCHANGED status
                 /\ Set(t, At(Call(tk[t], "setStatus"), "catch"))
    /\ UNCHANGED <<isRunning, killSwitch, errorCount, lastFetch, lastUpdate, priceHistory,
                   alertCooldown, override, sharedPrice, chain, now, fetchVars>>

\* redis-state.ts pushPriceSnapshot: LPUSH, then LTRIM 0 999, two commands of
\* the store in one try/catch that logs.  pushOk, trimOk: whether the store
\* takes each (the trim is not sent when the push failed).
pushPriceSnapshot(len, pushOk, trimOk) ==
    IF ~pushOk THEN len
    ELSE IF ~trimOk THEN len + 1
    ELSE IF len + 1 > historyMax THEN historyMax ELSE len + 1

\* What the store does with the two commands of one pushPriceSnapshot call.
PushInputs ==
    {[pushOk |-> TRUE, trimOk |-> TRUE]}
    \cup (IF Budget > 0
          THEN {[pushOk |-> FALSE, trimOk |-> TRUE], [pushOk |-> TRUE, trimOk |-> FALSE]}
          ELSE {})

\* Step 9, lines 165-171, and the end of the try block.
PushPriceSnapshot(t) ==
    /\ tk[t].pc = "pushPriceSnapshot"
    /\ \E i \in PushInputs :
         /\ Fail(i.pushOk /\ i.trimOk)
         /\ priceHistory' = pushPriceSnapshot(priceHistory, i.pushOk, i.trimOk)
         /\ Set(t, At(Call([tk[t] EXCEPT !.snapshot =
                               IF i.pushOk THEN tk[t].priceSource ELSE ""],
                           "pushPriceSnapshot"), "finally"))
    /\ UNCHANGED <<isRunning, killSwitch, errorCount, lastFetch, lastUpdate, status,
                   alertCooldown, override, sharedPrice, chain, now, fetchVars>>

\* The catch block, line 182: incrementErrorCount() is called again, outside of
\* any try: when it raises, the exception leaves tick().
CatchIncrement(t) ==
    /\ tk[t].pc = "catch"
    /\ \E ok \in Outcomes :
         /\ Fail(ok)
         /\ IF ok
            THEN /\ errorCount' = incrementErrorCount(errorCount)
                 /\ Set(t, At(Call(tk[t], "catch_incrementErrorCount"), "catchSetStatus"))
            ELSE /\ UNCHANGED errorCount
                 /\ Set(t, At(Call([tk[t] EXCEPT !.threw = TRUE],
                                   "catch_incrementErrorCount"), "finally"))
    /\ UNCHANGED <<isRunning, killSwitch, lastFetch, lastUpdate, status, priceHistory,
                   alertCooldown, override, sharedPrice, chain, now, fetchVars>>

\* The catch block, lines 186-192: setStatus() raises when the store fails.
CatchSetStatus(t) ==
    /\ tk[t].pc = "catchSetStatus"
    /\ \E ok \in Outcomes :
         /\ Fail(ok)
         /\ IF ok
            THEN /\ status' = "error"
                 /\ Set(t, At(Call(tk[t], "catch_setStatus"), "finally"))
            ELSE /\ UNCHANGED status
                 /\ Set(t, At(Call([tk[t] EXCEPT !.threw = TRUE], "catch_setStatus"), "finally"))
    /\ UNCHANGED <<isRunning, killSwitch, errorCount, lastFetch, lastUpdate, priceHistory,
                   alertCooldown, override, sharedPrice, chain, now, fetchVars>>

\* The flag cleared at the end of the try and of the catch block, with no
\* finally: an exception that leaves the catch block leaves the flag set.
FinallyUnlessThrown(t) ==
    /\ tk[t].pc = "finally"
    /\ isRunning' = tk[t].threw
    /\ Set(t, TickIdle)
    /\ UNCHANGED <<storeVars, chain, now, faults, fetchVars>>

\* The finally block, lines 194-196; then tick() returns, or raises when
\* tk[t].threw.
Finally(t) ==
    /\ tk[t].pc = "finally"
    /\ isRunning' = FALSE
    /\ Set(t, TickIdle)
    /\ UNCHANGED <<storeVars, chain, now, faults, fetchVars>>

\* ======================================================================
\* server.ts
\* ======================================================================
\* POST /admin/kill-switch {active}: setKillSwitch(active).
AdminKillSwitch(active) ==
    /\ killSwitch # active
    /\ killSwitch' = active
    /\ UNCHANGED <<isRunning, tk, errorCount, lastFetch, lastUpdate, status, priceHistory,
                   alertCooldown, override, sharedPrice, chain, now, faults, fetchVars>>

\* POST /admin/override {prices, expiresInMinutes}: setOverridePrices(prices,
\* 60) when no duration is given; 60 minutes are 12 units of time.
\* setOverridePrices writes the prices, then the expiry: when the store fails on
\* the second write the prices stay without an expiry.
overrideUnits == 12

\* The prices an operator sets: gold well above what the feeds quote.
OverridePrices == [gold |-> 18500, silver |-> 286, platinum |-> 7330, palladium |-> 5851]

AdminSetOverride(prices) ==
    /\ override.prices = Null
    /\ \E ok \in Outcomes :
         /\ Fail(ok)
         /\ override' = [prices |-> prices,
                         expires |-> IF ok THEN [at |-> now + overrideUnits] ELSE Null,
                         due |-> now + overrideUnits]
    /\ UNCHANGED <<isRunning, tk, killSwitch, errorCount, lastFetch, lastUpdate, status,
                   priceHistory, alertCooldown, sharedPrice, chain, now, fetchVars>>

\* DELETE /admin/override: clearOverridePrices().
AdminClearOverride ==
    /\ override.prices # Null
    /\ override' = NoOverride
    /\ UNCHANGED <<isRunning, tk, killSwitch, errorCount, lastFetch, lastUpdate, status,
                   priceHistory, alertCooldown, sharedPrice, chain, now, faults, fetchVars>>

Next ==
    \/ \E t \in Ticks : TimerFire(t)
    \/ \E t \in Ticks : ForceTick(t)
    \/ \E t \in Ticks : SkipReturn(t)
    \/ \E t \in Ticks : GetKillSwitch(t)
    \/ \E t \in Ticks : GetOverridePrices(t)
    \/ \E t \in Ticks : FetchPrices(t)
    \/ \E t \in Ticks : AlertSourceFailure(t)
    \/ \E t \in Ticks : ReadOraclePrices(t)
    \/ \E t \in Ticks : AnalyzePrices(t)
    \/ \E t \in Ticks : SendAnomalyAlerts(t)
    \/ \E t \in Ticks : UpdateOracle(t)
    \/ \E t \in Ticks : SetLastUpdate(t)
    \/ \E t \in Ticks : ResetErrorCount(t)
    \/ \E t \in Ticks : IncrementErrorCount(t)
    \/ \E t \in Ticks : AlertUpdateFailure(t)
    \/ \E t \in Ticks : SetKillSwitch(t)
    \/ \E t \in Ticks : AlertWatcherError(t)
    \/ \E t \in Ticks : GetErrorCount(t)
    \/ \E t \in Ticks : SetStatus(t)
    \/ \E t \in Ticks : PushPriceSnapshot(t)
    \/ \E t \in Ticks : CatchIncrement(t)
    \/ \E t \in Ticks : CatchSetStatus(t)
    \/ \E t \in Ticks : Finally(t)
    \/ \E active \in BOOLEAN : AdminKillSwitch(active)

Spec == Init /\ [][Next]_vars

\* ======================================================================
\* Ticks one after the other, over the store an earlier run left
\* ======================================================================
\* The operations that fail during one behaviour of ticks that never overlap.
MaxSeqFaults == 3

\* The record of the last fetch of the earlier run: gold has since risen by
\* more than 5 % at every source.
OldFetch ==
    [prices |-> [gold |-> 15000, silver |-> 286, platinum |-> 7330, palladium |-> 5851],
     source |-> "goldapi", errors |-> <<>>]

\* The earlier run ended one failure short of the auto-pause.  faults is counted
\* from MaxFaults - MaxSeqFaults, so that MaxSeqFaults operations may fail.
InitSeq ==
    /\ isRunning = FALSE
    /\ tk = [t \in Ticks |-> TickIdle]
    /\ killSwitch = FALSE
    /\ errorCount = maxConsecutiveErrors - 1
    /\ lastFetch = OldFetch
    /\ lastUpdate = Null
    /\ status = "running"
    /\ priceHistory = historyMax - MaxHistoryFree
    /\ alertCooldown = [a \in AlertTypes |-> 0]
    /\ override = NoOverride
    /\ sharedPrice = [cache |-> Null, stale |-> Null]
    /\ chain = NoPrices
    /\ now = 0
    /\ faults = MaxFaults - MaxSeqFaults
    /\ fetchIn = Null
    /\ fetchOut = Null
    /\ analyzeIn = Null
    /\ analyzeOut = Null
    /\ updateIn = Null
    /\ updateOut = Null
    /\ alertIn = Null
    /\ alertOut = Null
    /\ overrideCalls = Null

\* The timer fires when no tick is in flight; the operator sets and clears the
\* override between the steps of the ticks.
NextSeq ==
    \/ \E t \in Ticks : ~isRunning /\ TimerFire(t)
    \/ \E t \in Ticks : GetKillSwitch(t)
    \/ \E t \in Ticks : GetOverridePrices(t)
    \/ \E t \in Ticks : FetchPrices(t)
    \/ \E t \in Ticks : AlertSourceFailure(t)
    \/ \E t \in Ticks : ReadOraclePrices(t)
    \/ \E t \in Ticks : AnalyzePrices(t)
    \/ \E t \in Ticks : SendAnomalyAlerts(t)
    \/ \E t \in Ticks : UpdateOracle(t)
    \/ \E t \in Ticks : SetLastUpdate(t)
    \/ \E t \in Ticks : ResetErrorCount(t)
    \/ \E t \in Ticks : IncrementErrorCount(t)
    \/ \E t \in Ticks : AlertUpdateFailure(t)
    \/ \E t \in Ticks : SetKillSwitch(t)
    \/ \E t \in Ticks : AlertWatcherError(t)
    \/ \E t \in Ticks : GetErrorCount(t)
    \/ \E t \in Ticks : SetStatus(t)
    \/ \E t \in Ticks : PushPriceSnapshot(t)
    \/ \E t \in Ticks : CatchIncrement(t)
    \/ \E t \in Ticks : CatchSetStatus(t)
    \/ \E t \in Ticks : Finally(t)
    \/ AdminSetOverride(OverridePrices)
    \/ AdminClearOverride

SpecSeq == InitSeq /\ [][NextSeq]_vars

\* ======================================================================
\* Ticks one after the other while an override is set and runs out
\* ======================================================================
\* The earlier run ended one failure short of the first update_failure alert.
InitOverride ==
    /\ isRunning = FALSE
    /\ tk = [t \in Ticks |-> TickIdle]
    /\ killSwitch = FALSE
    /\ errorCount = alertAfterErrors - 1
    /\ lastFetch = OldFetch
    /\ lastUpdate = Null
    /\ status = "running"
    /\ priceHistory = historyMax - MaxHistoryFree
    /\ alertCooldown = [a \in AlertTypes |-> 0]
    /\ override = NoOverride
    /\ sharedPrice = [cache |-> Null, stale |-> Null]
    /\ chain = NoPrices
    /\ now = 0
    /\ faults = 0
    /\ fetchIn = Null
    /\ fetchOut = Null
    /\ analyzeIn = Null
    /\ analyzeOut = Null
    /\ updateIn = Null
    /\ updateOut = Null
    /\ alertIn = Null
    /\ alertOut = Null
    /\ overrideCalls = Null

\* The time between two ticks in which an override set before the first runs
\* out.
AdvancePastOverride ==
    /\ ~isRunning
    /\ now = 0
    /\ now' = now + overrideUnits + 1
    /\ UNCHANGED <<isRunning, tk, storeVars, chain, faults, fetchVars>>

NextOverride ==
    \/ \E t \in Ticks : ~isRunning /\ TimerFire(t)
    \/ \E t \in Ticks : GetKillSwitch(t)
    \/ \E t \in Ticks : GetOverridePrices(t)
    \/ \E t \in Ticks : FetchPrices(t)
    \/ \E t \in Ticks : AlertSourceFailure(t)
    \/ \E t \in Ticks : ReadOraclePrices(t)
    \/ \E t \in Ticks : AnalyzePrices(t)
    \/ \E t \in Ticks : SendAnomalyAlerts(t)
    \/ \E t \in Ticks : UpdateOracle(t)
    \/ \E t \in Ticks : SetLastUpdate(t)
    \/ \E t \in Ticks : ResetErrorCount(t)
    \/ \E t \in Ticks : IncrementErrorCount(t)
    \/ \E t \in Ticks : AlertUpdateFailure(t)
    \/ \E t \in Ticks : GetErrorCount(t)
    \/ \E t \in Ticks : SetStatus(t)
    \/ \E t \in Ticks : PushPriceSnapshot(t)
    \/ \E t \in Ticks : CatchIncrement(t)
    \/ \E t \in Ticks : CatchSetStatus(t)
    \/ \E t \in Ticks : Finally(t)
    \/ AdminSetOverride(OverridePrices)
    \/ AdminClearOverride
    \/ AdvancePastOverride

SpecOverride == InitOverride /\ [][NextOverride]_vars

\* ======================================================================
\* fetchPrices on its own
\* ======================================================================
\* The answers of the primary feed: every symbol answers; symbol `at` is rate
\* limited, answers HTTP 500, or answers without a price; the network is down.
GoldHttpError(oz, at) == [GoldOk(oz) EXCEPT ![at].status = 500]
GoldNoPrice(oz, at) == [GoldOk(oz) EXCEPT ![at].price = 0]
GoldNetDown(oz) == [i \in 1..4 |-> [GoldOk(oz)[i] EXCEPT !.net = FALSE]]

GoldNegative(oz, at) == [GoldOk(oz) EXCEPT ![at].price = 0 - oz[goldApiSymbols[symbols[at]]]]

\* What the primary feed quotes: no price of it is the price another source has
\* for the same metal.
OzGold == [gold |-> 5300, silver |-> 91, platinum |-> 2300, palladium |-> 1850]

GoldInputs ==
    {GoldOk(OzGold), GoldRateLimited(OzGold, 1), GoldRateLimited(OzGold, 3),
     GoldHttpError(OzGold, 2), GoldNoPrice(OzGold, 4), GoldNegative(OzGold, 3),
     GoldNetDown(OzGold)}

\* The answers of the secondary feed: all four metals; gold alone; no gold; a
\* body that is not a list; a body that does not parse; HTTP error; no answer.
LiveGoldOnly(oz) == [LiveOk(oz) EXCEPT !.items = <<[metal |-> "gold", price |-> oz.gold]>>]
LiveNoGold(oz) == [LiveOk(oz) EXCEPT !.items = Tail(LiveOk(oz).items)]
LiveNotArray == [net |-> TRUE, ok |-> TRUE, json |-> TRUE, array |-> FALSE, items |-> <<>>]
LiveBadJson == [net |-> TRUE, ok |-> TRUE, json |-> FALSE, array |-> FALSE, items |-> <<>>]
LiveNetDown == [net |-> FALSE, ok |-> FALSE, json |-> FALSE, array |-> FALSE, items |-> <<>>]

\* The secondary feed quoting a negative price for silver.
LiveNegative(oz) == [LiveOk(oz) EXCEPT !.items[2].price = 0 - oz.silver]

LiveInputs ==
    {LiveOk(OzLive), LiveGoldOnly(OzLive), LiveNoGold(OzLive), LiveNegative(OzLive),
     LiveNotArray, LiveBadJson, LiveDown, LiveNetDown}

\* The stale copy: absent; what a live feed left; one whose gold price is zero;
\* one that another writer of the shared key left with a gold price only.
StaleGoldOnly == [m \in {"gold"} |-> DivTroyOz(OzLive[m])]

StaleInputs == {Null, [m \in Metals |-> DivTroyOz(OzLive[m])], NoPrices, StaleGoldOnly}

FetchInputs ==
    {i \in [hasKey : BOOLEAN, gold : GoldInputs, live : LiveInputs, stale : StaleInputs,
            staleOk : BOOLEAN, cacheOk : BOOLEAN, staleSetOk : BOOLEAN] :
        ~i.cacheOk => i.staleSetOk}

InitFetch ==
    /\ isRunning = FALSE
    /\ tk = [t \in Ticks |-> TickIdle]
    /\ killSwitch = FALSE
    /\ errorCount = 0
    /\ lastFetch = Null
    /\ lastUpdate = Null
    /\ status = "running"
    /\ priceHistory = historyMax - MaxHistoryFree
    /\ alertCooldown = [a \in AlertTypes |-> 0]
    /\ override = NoOverride
    /\ sharedPrice = [cache |-> Null, stale |-> Null]
    /\ chain = NoPrices
    /\ now = 0
    /\ faults = 0
    /\ fetchIn \in FetchInputs
    /\ fetchOut = Null
    /\ analyzeIn = Null
    /\ analyzeOut = Null
    /\ updateIn = Null
    /\ updateOut = Null
    /\ alertIn = Null
    /\ alertOut = Null
    /\ overrideCalls = Null

\* One call of fetchPrices().
CallFetchPrices ==
    /\ fetchOut = Null
    /\ fetchOut' = fetchPrices(fetchIn)
    /\ UNCHANGED <<isRunning, tk, storeVars, chain, now, faults, fetchIn, analyzeIn,
                   analyzeOut, updateIn, updateOut, alertIn, alertOut,
                   overrideCalls>>

NextFetch == CallFetchPrices

SpecFetch == InitFetch /\ [][NextFetch]_vars

\* ======================================================================
\* analyzePrices on its own
\* ======================================================================
\* The time, in units, between the last update record and the call.
MaxElapsed == 3

\* Per metal: the fetched price, the on-chain price and the price of the
\* previous fetch.  The on-chain price is unset or 10000; the fetched price is
\* within, at and beyond 0.5 % of it; the previous price is 0 or 10000, and
\* the fetched price is within, at and beyond 5 % of it.
MetalCases ==
    {[current |-> 10000, onChain |-> 0,     previous |-> 0],
     [current |-> 9500,  onChain |-> 0,     previous |-> 10000],
     [current |-> 10000, onChain |-> 10000, previous |-> 10000],
     [current |-> 10050, onChain |-> 10000, previous |-> 10000],
     [current |-> 9950,  onChain |-> 10000, previous |-> 0],
     [current |-> 10051, onChain |-> 10000, previous |-> 10000],
     [current |-> 10500, onChain |-> 10000, previous |-> 10000],
     [current |-> 10501, onChain |-> 10000, previous |-> 10000],
     [current |-> 9499,  onChain |-> 10000, previous |-> 10000]}

\* What getLastUpdate() returns, and Date.now(): no record, or a record and the
\* time since it.
UpdateCases ==
    {[lastUpdate |-> Null, now |-> 0]}
    \cup {[lastUpdate |-> [timestamp |-> 0, source |-> "goldapi"], now |-> e] :
             e \in 0..MaxElapsed}

AnalyzeInputs ==
    {[current |-> [m \in Metals |-> c[m].current],
      onChain |-> [m \in Metals |-> c[m].onChain],
      lastFetch |-> IF hasFetch
                    THEN [prices |-> [m \in Metals |-> c[m].previous],
                          source |-> "goldapi", errors |-> <<>>]
                    ELSE Null,
      lastUpdate |-> u.lastUpdate, now |-> u.now] :
        c \in [Metals -> MetalCases], hasFetch \in BOOLEAN, u \in UpdateCases}

InitAnalyze ==
    /\ isRunning = FALSE
    /\ tk = [t \in Ticks |-> TickIdle]
    /\ killSwitch = FALSE
    /\ errorCount = 0
    /\ lastFetch = Null
    /\ lastUpdate = Null
    /\ status = "running"
    /\ priceHistory = historyMax - MaxHistoryFree
    /\ alertCooldown = [a \in AlertTypes |-> 0]
    /\ override = NoOverride
    /\ sharedPrice = [cache |-> Null, stale |-> Null]
    /\ chain = NoPrices
    /\ now = 0
    /\ faults = 0
    /\ fetchIn = Null
    /\ fetchOut = Null
    /\ analyzeIn \in AnalyzeInputs
    /\ analyzeOut = Null
    /\ updateIn = Null
    /\ updateOut = Null
    /\ alertIn = Null
    /\ alertOut = Null
    /\ overrideCalls = Null

\* One call of analyzePrices().
CallAnalyzePrices ==
    /\ analyzeOut = Null
    /\ analyzeOut' = analyzePrices(analyzeIn.current, analyzeIn.onChain, analyzeIn.lastFetch,
                                   analyzeIn.lastUpdate, analyzeIn.now)
    /\ UNCHANGED <<isRunning, tk, storeVars, chain, now, faults, fetchIn, fetchOut,
                   analyzeIn, updateIn, updateOut, alertIn, alertOut,
                   overrideCalls>>

NextAnalyze == CallAnalyzePrices

SpecAnalyze == InitAnalyze /\ [][NextAnalyze]_vars

\* ======================================================================
\* updateOracle on its own
\* ======================================================================
\* The calls: the prices of the hardcoded table or a stale copy with gold
\* only; the key set or not; each of the maxRetries + 1 calls of setAllPrices
\* answering or not; the transaction mined and confirmed, mined with the wait
\* for it failing, or never mined.
UpdateCalls ==
    {i \in [prices : {fallbackPrices, StaleGoldOnly}, hasKey : BOOLEAN,
             attempts : [1..(maxRetries + 1) -> BOOLEAN], mined : BOOLEAN,
             waitOk : BOOLEAN] : i.waitOk => i.mined}

InitUpdate ==
    /\ isRunning = FALSE
    /\ tk = [t \in Ticks |-> TickIdle]
    /\ killSwitch = FALSE
    /\ errorCount = 0
    /\ lastFetch = Null
    /\ lastUpdate = Null
    /\ status = "running"
    /\ priceHistory = historyMax - MaxHistoryFree
    /\ alertCooldown = [a \in AlertTypes |-> 0]
    /\ override = NoOverride
    /\ sharedPrice = [cache |-> Null, stale |-> Null]
    /\ chain = NoPrices
    /\ now = 0
    /\ faults = 0
    /\ fetchIn = Null
    /\ fetchOut = Null
    /\ analyzeIn = Null
    /\ analyzeOut = Null
    /\ updateIn \in UpdateCalls
    /\ updateOut = Null
    /\ alertIn = Null
    /\ alertOut = Null
    /\ overrideCalls = Null

\* One call of updateOracle().
CallUpdateOracle ==
    /\ updateOut = Null
    /\ LET u == updateOracle(updateIn.prices, updateIn.hasKey, updateIn.attempts,
                             updateIn.mined, updateIn.waitOk)
       IN /\ updateOut' = u
          /\ chain' = IF u.written THEN u.e6 ELSE chain
    /\ UNCHANGED <<isRunning, tk, storeVars, now, faults, fetchIn, fetchOut, analyzeIn,
                   analyzeOut, updateIn, alertIn, alertOut,
                   overrideCalls>>

NextUpdate == CallUpdateOracle

SpecUpdate == InitUpdate /\ [][NextUpdate]_vars

\* ======================================================================
\* sendAnomalyAlerts on its own
\* ======================================================================
\* The anomalies of the analysis, and two it does not produce itself.
Spike(m) == [type |-> "price_spike", metal |-> m, severity |-> "critical", value |-> 600]
Crash(m) == [type |-> "price_crash", metal |-> m, severity |-> "critical", value |-> 0 - 600]
Stale == [type |-> "stale_data", metal |-> "", severity |-> "warning", value |-> 15]
SourceFailure ==
    [type |-> "source_failure", metal |-> "", severity |-> "warning", value |-> 0]
Unknown == [type |-> "unknown", metal |-> "", severity |-> "warning", value |-> 0]

AnomalyLists ==
    {<<>>,
     <<Stale>>,
     <<Spike("gold"), Crash("silver"), Stale>>,
     <<Stale, Crash("gold")>>,
     <<SourceFailure, Unknown, Stale>>}

\* The cooldown keys an earlier tick left: none, or the one of oracle_stale.
InitCooldowns ==
    {[a \in AlertTypes |-> 0],
     [a \in AlertTypes |-> IF a = "oracle_stale" THEN alertCooldownUnits ELSE 0]}

InitAlert ==
    /\ isRunning = FALSE
    /\ tk = [t \in Ticks |-> TickIdle]
    /\ killSwitch = FALSE
    /\ errorCount = 0
    /\ lastFetch = Null
    /\ lastUpdate = Null
    /\ status = "running"
    /\ priceHistory = historyMax - MaxHistoryFree
    /\ alertCooldown \in InitCooldowns
    /\ override = NoOverride
    /\ sharedPrice = [cache |-> Null, stale |-> Null]
    /\ chain = NoPrices
    /\ now = 0
    /\ faults = 0
    /\ fetchIn = Null
    /\ fetchOut = Null
    /\ analyzeIn = Null
    /\ analyzeOut = Null
    /\ updateIn = Null
    /\ updateOut = Null
    /\ alertIn \in {[anomalies |-> l, next |-> 1, raised |-> FALSE] : l \in AnomalyLists}
    /\ alertOut = <<>>
    /\ overrideCalls = Null

\* One turn of the loop of sendAnomalyAlerts: the sendAlert call of the next
\* anomaly, awaited; an exception of it ends the loop.
CallSendAlert ==
    /\ ~alertIn.raised
    /\ alertIn.next <= Len(alertIn.anomalies)
    /\ LET type == alertTypeOf(alertIn.anomalies[alertIn.next].type)
       IN \E i \in AlertInputs(type) :
            LET a == sendAlert(type, alertCooldown, now, i.readOk, i.postOk, i.setOk)
            IN /\ alertCooldown' = a.cd
               /\ alertIn' = [alertIn EXCEPT !.next = @ + 1, !.raised = a.threw]
               /\ alertOut' = Append(alertOut,
                      [anomaly |-> alertIn.next, type |-> type, at |-> now,
                       readOk |-> i.readOk, onCooldown |-> alertCooldown[type] > now,
                       threw |-> a.threw, sent |-> a.sent, requested |-> a.requested,
                       posted |-> a.posted, marked |-> a.cd[type] > now])
    /\ UNCHANGED <<isRunning, tk, killSwitch, errorCount, lastFetch, lastUpdate, status,
                   priceHistory, override, sharedPrice, chain, now, faults, fetchIn,
                   fetchOut, analyzeIn, analyzeOut, updateIn, updateOut, overrideCalls>>

\* Time passes while a call is awaited.
AdvanceAlert ==
    /\ now < MaxElapsed
    /\ now' = now + 1
    /\ UNCHANGED <<isRunning, tk, storeVars, chain, faults, fetchVars>>

NextAlert == CallSendAlert \/ AdvanceAlert

SpecAlert == InitAlert /\ [][NextAlert]_vars

\* ======================================================================
\* Properties
\* ======================================================================
InCalls(t, name) == \E i \in DOMAIN tk[t].calls : tk[t].calls[i] = name
CountCalls(t, name) == Cardinality({i \in DOMAIN tk[t].calls : tk[t].calls[i] = name})
InBody(r) == r.pc \notin {"idle", "skipped"}

\* C1: at most one tick body executes at a time; an invocation that arrives
\* while a tick is in flight (isRunning) only becomes a skipped call, which
\* touches neither the flag, the store nor the chain, and whose only step
\* afterwards is its return: it is never started later.
C1_SingleFlight ==
    [][ /\ Cardinality({t \in Ticks : InBody(tk'[t])}) <= 1
        /\ \A t \in Ticks :
             (isRunning /\ tk[t].pc = "idle" /\ tk'[t].pc # "idle")
                => /\ tk'[t] = At(TickIdle, "skipped")
                   /\ UNCHANGED <<isRunning, storeVars, chain>>
        /\ \A t \in Ticks :
             (tk[t].pc = "skipped" /\ tk'[t] # tk[t])
                => /\ tk'[t] = TickIdle
                   /\ UNCHANGED <<isRunning, storeVars, chain>> ]_vars

\* A call is being skipped while the body of another one is past its first steps.
C1_Witness ==
    \E t, u \in Ticks :
        tk[t].pc = "skipped" /\ InBody(tk[u]) /\ InCalls(u, "fetchPrices")

\* C2, as stated: no exception leaves an invocation of tick().  It fails: the
\* catch block calls incrementErrorCount() and setStatus() outside of any try.
C2_TickNeverRejects == \A t \in Ticks : ~tk[t].threw

\* C3, as stated: a tick whose step-1 read returned ON ends without having called
\* updateOracle, with every anomaly alert dispatched and the snapshot pushed.  It
\* fails where sendAlert() or a store write raises: the tick goes to its catch
\* block and the snapshot is not pushed.
C3_PausedTickStillReports ==
    \A t \in Ticks :
        (tk[t].pc = "finally" /\ tk[t].killSwitchActive)
           => /\ ~InCalls(t, "updateOracle")
              /\ InCalls(t, "analyzePrices")
              /\ tk[t].alertIdx > Len(tk[t].anomalies)
              /\ InCalls(t, "pushPriceSnapshot")

\* C4, amended: updateOracle is called only by a tick whose own step-1 read of
\* the kill switch returned OFF (a failed read counts as OFF).
C4_UpdateOnlyWhenReadOff ==
    \A t \in Ticks : InCalls(t, "updateOracle") => ~tk[t].killSwitchActive

\* A tick that read ON and whose analysis asked for an update has gone past
\* step 7 without the update.
C4_Witness ==
    \E t \in Ticks :
        /\ tk[t].killSwitchActive
        /\ tk[t].shouldUpdate
        /\ tk[t].pc = "getErrorCount"
        /\ ~InCalls(t, "updateOracle")

\* C4, as stated: updateOracle is not called while the kill switch in the store
\* is ON.  It fails when an admin request sets the switch after step 1.
C4_NoUpdateWhileStoreSwitchOn ==
    \A t \in Ticks :
        (tk[t].pc = "updateOracle" /\ mustUpdate(tk[t].shouldUpdate, tk[t].killSwitchActive))
           => ~killSwitch

\* C5, as stated: a tick whose failed update brought the counter to the
\* auto-pause threshold has set the kill switch and dispatched watcher_error.
\* It fails where the update_failure alert or setKillSwitch() raises.
C5_AutoPause ==
    \A t \in Ticks :
        (/\ tk[t].pc = "finally"
         /\ tk[t].updateResult = "failure"
         /\ tk[t].errorCount >= maxConsecutiveErrors)
           => /\ InCalls(t, "setKillSwitch")
              /\ InCalls(t, "sendAlert_watcher_error")

\* C6, as stated: at the end of a tick whose update succeeded the stored counter
\* is 0 and the last update record is the one of this tick.  It fails where
\* setLastUpdate(), resetErrorCount() or a later store call of the tick raises.
C6_SuccessRecorded ==
    \A t \in Ticks :
        (tk[t].pc = "finally" /\ tk[t].updateResult = "success")
           => /\ errorCount = 0
              /\ lastUpdate = [timestamp |-> now, source |-> tk[t].priceSource]

Sources == <<"goldapi", "metals-live", "redis-stale", "hardcoded">>

C8_ValidSourceNeverRaises ==
    fetchOut # Null
       => /\ ~fetchOut.raised
          /\ \E k \in 1..4 : fetchOut.source = Sources[k]

\* Everything fails at once: no answer from either feed, the store read fails.
C8_Witness ==
    /\ fetchOut # Null
    /\ ~fetchIn.gold[1].net
    /\ ~fetchIn.live.net
    /\ ~fetchIn.staleOk
    /\ fetchOut.source = "hardcoded"

\* C9: the source of the result is the first, in the order primary, secondary,
\* stale copy, hardcoded, that succeeded, and the sources contacted are exactly
\* those up to it, in that order.
PrimarySucceeds(in) ==
    in.hasKey /\ \A k \in 1..4 : LET r == in.gold[k]
                                 IN r.net /\ r.status = 200 /\ r.json /\ r.price > 0
SecondarySucceeds(in) ==
    /\ in.live.net /\ in.live.ok /\ in.live.json /\ in.live.array
    /\ \E k \in DOMAIN in.live.items :
          in.live.items[k].metal = "gold" /\ in.live.items[k].price # 0
StaleSucceeds(in) == in.staleOk /\ in.stale # Null /\ in.stale.gold > 0
FirstSucceeding(in) ==
    IF PrimarySucceeds(in) THEN 1
    ELSE IF SecondarySucceeds(in) THEN 2
    ELSE IF StaleSucceeds(in) THEN 3
    ELSE 4

C9_FirstSourceInOrder ==
    fetchOut # Null
       => /\ fetchOut.source = Sources[FirstSucceeding(fetchIn)]
          /\ fetchOut.contacted = SubSeq(Sources, 1, FirstSucceeding(fetchIn))

\* Both feeds fail and the stale copy supplies the result.
C9_Witness ==
    /\ fetchOut # Null
    /\ fetchOut.source = "redis-stale"
    /\ fetchOut.contacted = <<"goldapi", "metals-live", "redis-stale">>

\* C10, as stated: errors holds one reason per source before the chosen one.
\* It fails for the hardcoded result: a stale copy that is absent, unreadable
\* or without a gold price adds no reason, so errors holds 2 entries, not 3.
C10_OneReasonPerEarlierSource ==
    fetchOut # Null
       => \E k \in 1..4 : fetchOut.source = Sources[k] /\ Len(fetchOut.errors) = k - 1

\* C11: when a request of the primary feed fails (a symbol answers 429, an HTTP
\* error, or no positive price; or gets no answer), the primary is not the
\* source of the result, no price a symbol answered before is in the result,
\* no request follows the failed one, the reason of the failure is the first
\* entry of errors, and the secondary feed is the next source contacted.
C11_PrimaryFailsAsAWhole ==
    (fetchOut # Null /\ fetchIn.hasKey /\ FirstBad(fetchIn.gold) # 0)
       => LET b == FirstBad(fetchIn.gold)
          IN /\ fetchOut.source # "goldapi"
             /\ fetchOut.requests = b
             /\ \A k \in 1..(b - 1) :
                  /\ \A m \in DOMAIN fetchOut.prices :
                       fetchOut.prices[m] # DivTroyOz(fetchIn.gold[k].price)
                  /\ \A m \in DOMAIN fetchOut.pricesOz :
                       fetchOut.pricesOz[m] # fetchIn.gold[k].price
             /\ Len(fetchOut.errors) >= 1
             /\ fetchOut.errors[1] = GoldApiError(symbols[b], fetchIn.gold[b])
             /\ Len(fetchOut.contacted) >= 2
             /\ fetchOut.contacted[2] = "metals-live"

\* The third symbol is rate limited after two symbols have answered, and the
\* secondary feed supplies the result.
C11_Witness ==
    /\ fetchOut # Null
    /\ fetchIn.hasKey
    /\ fetchIn.gold = GoldRateLimited(OzGold, 3)
    /\ fetchOut.requests = 3
    /\ fetchOut.source = "metals-live"
    /\ fetchOut.errors = <<[api |-> "GoldAPI", sym |-> "", why |-> "rate limited"]>>

\* C13, as stated: the result of fetchPrices has a price >= 0 for each of the
\* four metals.  It fails: the secondary feed's prices are taken as they come
\* when they are truthy, negative ones included, and the stale copy is accepted
\* on its gold price alone.
C13_AllFourPricesPresent ==
    fetchOut # Null
       => \A m \in Metals : m \in DOMAIN fetchOut.prices /\ fetchOut.prices[m] >= 0

\* C14, amended: the write of the shared cache is attempted exactly when the
\* primary or the secondary feed supplied the result, with the prices of the
\* result; the 60 s key is written when the store takes the first write, the
\* stale copy when it takes both; a result from the stale copy or from the
\* hardcoded table attempts no write.
C14_CacheWriteOnlyFromLiveFeed ==
    fetchOut # Null
       => /\ fetchOut.cache.attempted <=> fetchOut.source \in {"goldapi", "metals-live"}
          /\ fetchOut.cache.attempted => fetchOut.cache.prices = fetchOut.prices
          /\ fetchOut.cache.written <=> (fetchOut.cache.attempted /\ fetchIn.cacheOk)
          /\ fetchOut.cache.staleWritten
               <=> (fetchOut.cache.attempted /\ fetchIn.cacheOk /\ fetchIn.staleSetOk)

\* The primary feed supplied the result, the 60 s key was written and the write
\* of the stale copy failed.
C14_Witness ==
    /\ fetchOut # Null
    /\ fetchOut.source = "goldapi"
    /\ fetchOut.cache.written
    /\ ~fetchOut.cache.staleWritten

\* C14, as stated: both keys are written exactly when a live feed supplied the
\* result.  It fails when the store refuses a write: the result is returned all
\* the same.
C14_BothKeysWrittenIffLiveFeed ==
    fetchOut # Null
       => ((fetchOut.cache.written /\ fetchOut.cache.staleWritten)
             <=> fetchOut.source \in {"goldapi", "metals-live"})

\* ------------------------------------------------- analyzePrices on its own
InSeq(q, x) == \E i \in DOMAIN q : q[i] = x
SpikesOf(out, m) ==
    {i \in DOMAIN out.anomalies :
        out.anomalies[i].type \in {"price_spike", "price_crash"} /\ out.anomalies[i].metal = m}
StalesOf(out) == {i \in DOMAIN out.anomalies : out.anomalies[i].type = "stale_data"}

\* C15: a metal whose on-chain price is 0 has the deviation 100 (10000
\* hundredths of a percent) and is in metalsToUpdate, whatever its fetched price.
C15_UnsetOnChainAlwaysFlagged ==
    analyzeOut # Null
       => \A m \in Metals :
            analyzeIn.onChain[m] <= 0
               => /\ analyzeOut.deviations[m] = 10000
                  /\ InSeq(analyzeOut.metalsToUpdate, m)
                  /\ analyzeOut.shouldUpdate

\* Gold is unset on chain; the other metals are on chain at the fetched price.
C15_Witness ==
    /\ analyzeOut # Null
    /\ analyzeIn.onChain.gold = 0
    /\ \A m \in Metals \ {"gold"} : analyzeIn.onChain[m] = analyzeIn.current[m]
    /\ analyzeOut.metalsToUpdate = <<"gold">>

\* C16: a metal is in metalsToUpdate exactly when its on-chain price is <= 0 or
\* |fetched - onChain| / onChain * 100 > 0.5 (that is, 1000 times the difference
\* is more than 5 times the on-chain price), and shouldUpdate is true exactly
\* when metalsToUpdate is not empty.
C16_FlaggedIffStrictlyAboveThreshold ==
    analyzeOut # Null
       => /\ \A m \in Metals :
               InSeq(analyzeOut.metalsToUpdate, m)
                 <=> \/ analyzeIn.onChain[m] <= 0
                     \/ 1000 * Abs(analyzeIn.current[m] - analyzeIn.onChain[m])
                          > 5 * analyzeIn.onChain[m]
          /\ analyzeOut.shouldUpdate <=> (\E m \in Metals : InSeq(analyzeOut.metalsToUpdate, m))

\* Gold deviates by exactly 0.5 %, no metal by more, and nothing is to update.
C16_Witness ==
    /\ analyzeOut # Null
    /\ analyzeIn.onChain.gold > 0
    /\ 1000 * Abs(analyzeIn.current.gold - analyzeIn.onChain.gold) = 5 * analyzeIn.onChain.gold
    /\ ~analyzeOut.shouldUpdate
    /\ analyzeOut.metalsToUpdate = <<>>

\* C17: a metal has a price_spike or price_crash anomaly exactly when there is
\* a previous fetch record with a positive price for it and
\* |current - previous| / previous * 100 > 5; there is then one anomaly, it is
\* critical, and it is a spike when the price rose and a crash when it fell.
C17_SpikeIffStrictlyAboveThreshold ==
    analyzeOut # Null
       => \A m \in Metals :
            LET prev == IF analyzeIn.lastFetch = Null THEN 0
                        ELSE analyzeIn.lastFetch.prices[m]
                cur == analyzeIn.current[m]
                big == prev > 0 /\ 100 * Abs(cur - prev) > 5 * prev
            IN /\ Cardinality(SpikesOf(analyzeOut, m)) = (IF big THEN 1 ELSE 0)
               /\ \A i \in SpikesOf(analyzeOut, m) :
                    /\ analyzeOut.anomalies[i].severity = "critical"
                    /\ analyzeOut.anomalies[i].type
                         = (IF cur > prev THEN "price_spike" ELSE "price_crash")

\* Gold rose by exactly 5 % and has no anomaly; silver fell by more and has one.
C17_Witness ==
    /\ analyzeOut # Null
    /\ analyzeIn.lastFetch # Null
    /\ analyzeIn.lastFetch.prices.gold > 0
    /\ 100 * (analyzeIn.current.gold - analyzeIn.lastFetch.prices.gold)
         = 5 * analyzeIn.lastFetch.prices.gold
    /\ SpikesOf(analyzeOut, "gold") = {}
    /\ \E i \in SpikesOf(analyzeOut, "silver") : analyzeOut.anomalies[i].type = "price_crash"

\* C19: there is one stale_data anomaly, a warning whose value is the elapsed
\* minutes, exactly when a last update record exists and more time than the
\* staleness threshold has passed since its timestamp; there is none otherwise,
\* and none without a record.
C19_StaleIffRecordOlderThanThreshold ==
    analyzeOut # Null
       => LET old == /\ analyzeIn.lastUpdate # Null
                     /\ analyzeIn.now - analyzeIn.lastUpdate.timestamp > staleThresholdUnits
          IN /\ Cardinality(StalesOf(analyzeOut)) = (IF old THEN 1 ELSE 0)
             /\ \A i \in StalesOf(analyzeOut) :
                  /\ analyzeOut.anomalies[i].severity = "warning"
                  /\ analyzeOut.anomalies[i].value
                       = 5 * (analyzeIn.now - analyzeIn.lastUpdate.timestamp)

\* The record is one unit older than the threshold, and the anomaly is there.
C19_Witness ==
    /\ analyzeOut # Null
    /\ analyzeIn.lastUpdate # Null
    /\ analyzeIn.now - analyzeIn.lastUpdate.timestamp = staleThresholdUnits + 1
    /\ Cardinality(StalesOf(analyzeOut)) = 1

\* ------------------------------------------------ ticks one after the other
\* C12, as stated: a tick that received a hardcoded result ends having called
\* sendAlert(source_failure).  It fails: setLastFetch() is called between
\* fetchPrices() and the alert, and raises when the store fails.
C12_HardcodedAlertsSourceFailure ==
    \A t \in Ticks :
        (tk[t].pc = "finally" /\ tk[t].priceSource = "hardcoded")
           => InCalls(t, "sendAlert_source_failure")

\* C18, as stated: a tick that used the fetch chain and has run the analysis has
\* an anomaly for every spike or crash between the record the preceding tick
\* left and the prices it fetched.  It fails: the tick has replaced that record
\* with its own prices before the analysis reads it.
C18_SpikeAgainstPrecedingTick ==
    \A t \in Ticks :
        (InCalls(t, "analyzePrices") /\ tk[t].priceSource # "override")
           => \A i \in DOMAIN tk[t].sincePrevious :
                \E j \in DOMAIN tk[t].anomalies :
                    /\ tk[t].anomalies[j].type = tk[t].sincePrevious[i].type
                    /\ tk[t].anomalies[j].metal = tk[t].sincePrevious[i].metal

\* C20, as stated: a tick that found a spike or a crash, read the kill switch
\* OFF and was told to update ends having called updateOracle.  It fails where
\* the alert of the anomaly raises: the tick goes to its catch block.
C20_SpikeDoesNotStopUpdate ==
    \A t \in Ticks :
        (/\ tk[t].pc = "finally"
         /\ ~tk[t].killSwitchActive
         /\ tk[t].shouldUpdate
         /\ \E i \in DOMAIN tk[t].anomalies :
              tk[t].anomalies[i].type \in {"price_spike", "price_crash"})
           => InCalls(t, "updateOracle")

\* ------------------------------------------------------- the on-chain read
\* C21, as stated: a tick whose read of the on-chain prices failed and that
\* read the kill switch OFF ends having called updateOracle.  It fails where an
\* alert of the analysis raises between the analysis and the update.  (What
\* precedes holds: the tick goes on with the four prices at 0 and the analysis
\* asks for the update.)
C21_FailedReadStillUpdates ==
    \A t \in Ticks :
        (tk[t].pc = "finally" /\ tk[t].readFailed /\ ~tk[t].killSwitchActive)
           => /\ tk[t].onChainPrices = NoPrices
              /\ InCalls(t, "updateOracle")

\* ---------------------------------------------------------- updateOracle
\* The calls of setAllPrices that answered among those made.
SubmissionAnswered ==
    \E k \in 1..(maxRetries + 1) : updateIn.attempts[k]

\* C22: updateOracle never raises; it returns success = true exactly when the
\* key is set, the four prices are there, a call of setAllPrices got the
\* transaction submitted and the wait for its confirmation returned; in every
\* other case it returns success = false with a message.
C22_UpdateNeverRaises ==
    updateOut # Null
       => /\ ~updateOut.raised
          /\ updateOut.success
               <=> /\ updateIn.hasKey
                   /\ DOMAIN updateIn.prices = Metals
                   /\ SubmissionAnswered
                   /\ updateIn.waitOk
          /\ updateOut.success => updateOut.waited /\ updateOut.submissions >= 1
          /\ ~updateOut.success => updateOut.error # ""

\* C22 happens: the transaction was submitted and mined, and the wait for its
\* confirmation failed: a failure is returned, not raised.
C22_Witness ==
    /\ updateOut # Null
    /\ updateIn.hasKey
    /\ updateIn.attempts[1]
    /\ updateIn.mined
    /\ ~updateIn.waitOk
    /\ ~updateOut.success
    /\ updateOut.error = "wait failed"
    /\ chain # NoPrices

\* C23, as stated: one call of updateOracle submits the transaction at most 3
\* times.  It fails: the loop of withRetry runs for attempt = 0..maxRetries, so
\* that a fourth call of setAllPrices follows three failed ones.
C23_AtMostThreeSubmissions ==
    updateOut # Null => updateOut.submissions <= 3

\* C24: without a signing key updateOracle returns a failure with no call of
\* setAllPrices made and no delay waited.
C24_NoKeyFailsAtOnce ==
    (updateOut # Null /\ ~updateIn.hasKey)
       => /\ ~updateOut.success
          /\ ~updateOut.raised
          /\ updateOut.submissions = 0
          /\ updateOut.delays = <<>>
          /\ ~updateOut.waited
          /\ chain = NoPrices

\* C24 happens: the key is not set and the chain would have taken the
\* transaction at the first call.
C24_Witness ==
    /\ updateOut # Null
    /\ ~updateIn.hasKey
    /\ updateIn.attempts[1]
    /\ updateIn.mined
    /\ updateOut.error = "PRIVATE_KEY not set"

\* ------------------------------------------------------------- sendAlert
\* C25: a sendAlert call that finds the cooldown key of its type posts nothing
\* and returns false; a call leaves the key of its type set only when the
\* endpoint answered its POST with 2xx; a call that found no key and did not
\* return true leaves none, and the next call for the type, made while the
\* store answers, posts again.
C25_CooldownOnlyAfterDelivery ==
    \A k \in DOMAIN alertOut :
        LET r == alertOut[k]
        IN /\ (r.readOk /\ r.onCooldown) => (~r.requested /\ ~r.sent /\ ~r.threw)
           /\ (r.marked /\ ~r.onCooldown) => (r.requested /\ r.posted)
           /\ (~r.onCooldown /\ ~r.sent) => ~r.marked
           /\ \A j \in DOMAIN alertOut :
                (/\ j > k
                 /\ alertOut[j].type = r.type
                 /\ \A l \in (k + 1)..(j - 1) : alertOut[l].type # r.type
                 /\ ~r.onCooldown /\ ~r.sent /\ alertOut[j].readOk)
                   => alertOut[j].requested

\* C25 happens: the POST of an alert failed, and the next alert of the same
\* type was posted at the same time of the clock.
C25_Witness ==
    \E k \in DOMAIN alertOut :
        /\ k + 1 \in DOMAIN alertOut
        /\ alertOut[k].type = "price_anomaly"
        /\ alertOut[k].requested /\ ~alertOut[k].posted
        /\ alertOut[k + 1].type = "price_anomaly"
        /\ alertOut[k + 1].at = alertOut[k].at
        /\ alertOut[k + 1].sent

\* C26, as stated: no sendAlert call raises.  It fails: the read of the
\* cooldown key is made before the try block.
C26_SendAlertNeverRaises ==
    \A k \in DOMAIN alertOut : ~alertOut[k].threw

\* C27, as stated: once sendAnomalyAlerts is over, sendAlert has been called
\* once for each anomaly, in the order of the list, with the type of the
\* anomaly mapped.  It fails: a call that raises ends the loop, and the
\* anomalies after it get no call.
C27_OneAlertPerAnomaly ==
    (alertIn # Null /\ (alertIn.raised \/ alertIn.next > Len(alertIn.anomalies)))
       => /\ Len(alertOut) = Len(alertIn.anomalies)
          /\ \A k \in DOMAIN alertOut :
                /\ alertOut[k].anomaly = k
                /\ alertOut[k].type = alertTypeOf(alertIn.anomalies[k].type)

\* ------------------------------------------------------ the persisted status
\* C28, as stated: when a tick ends without having raised, the state persisted
\* is paused if the kill switch of the store is ON and running otherwise.  It
\* fails in the tick of the auto-pause: the state written is the one of the
\* kill switch as step 1 read it.
C28_StatusFollowsStoreSwitch ==
    \A t \in Ticks :
        (tk[t].pc = "finally" /\ InCalls(t, "pushPriceSnapshot"))
           => status = IF killSwitch THEN "paused" ELSE "running"

\* -------------------------------------------------------------- overrides
\* C29, as stated: a tick that reads the override while one is in the store
\* gets its prices when the time the operator asked for has not passed; once it
\* has passed, the read deletes both keys and the tick goes to the fetch chain.
\* It fails twice: a read the store fails returns none while the override is
\* due, and an override whose expiry key was never written is returned after
\* its time.
C29_OverrideHonouredUntilDue ==
    [][\A t \in Ticks :
          (/\ tk[t].pc = "getOverridePrices"
           /\ tk'[t].pc # "getOverridePrices"
           /\ override.prices # Null)
             => IF now <= override.due
                THEN tk'[t].priceSource = "override" /\ override' = override
                ELSE override' = NoOverride /\ tk'[t].pc = "fetchPrices"]_vars

\* C30: a tick that uses an override never calls fetchPrices(), setLastFetch()
\* or sendAlert(source_failure); no step taken while it runs changes the last
\* fetch record or the shared price cache; the snapshot it pushes and the last
\* update record it writes carry the source override.
C30_OverrideTickFrame ==
    /\ [](\A t \in Ticks :
            tk[t].priceSource = "override"
               => /\ tk[t].pc \notin {"fetchPrices", "alertSourceFailure"}
                  /\ ~InCalls(t, "fetchPrices")
                  /\ ~InCalls(t, "setLastFetch")
                  /\ ~InCalls(t, "sendAlert_source_failure")
                  /\ tk[t].snapshot \in {"", "override"})
    /\ [][\A t \in Ticks :
            tk[t].priceSource = "override"
               => /\ lastFetch' = lastFetch
                  /\ sharedPrice' = sharedPrice
                  /\ lastUpdate' # lastUpdate => lastUpdate'.source = "override"]_vars

\* C30 happens: a tick that used the override has updated the chain, written
\* the last update record and pushed its snapshot.
C30_Witness ==
    \E t \in Ticks :
        /\ tk[t].pc = "finally"
        /\ tk[t].priceSource = "override"
        /\ tk[t].fetchedPrices = OverridePrices
        /\ InCalls(t, "setLastUpdate")
        /\ lastUpdate # Null
        /\ lastUpdate.source = "override"
        /\ tk[t].snapshot = "override"
        /\ lastFetch = OldFetch

\* ------------------------------------------------------- the price history
\* C31, as stated: the price-history list never holds more than 1000 entries.
\* It fails: the push and the trim are two commands, and the list keeps its
\* 1001st entry when the store fails on the trim.
C31_HistoryAtMostMax ==
    priceHistory <= historyMax

\* ------------------------------------------------------ the order of a tick
\* The place of each operation of a tick in the order of the steps: 1 the
\* kill-switch read, 2 the override read, 3-5 the fetch, 6 the on-chain read,
\* 7 the analysis, 8 the anomaly alerts, 9-13 the update and what follows it,
\* 14-16 the status write, 17 the snapshot push, 18-19 the catch block.
StepOf(name) ==
    CASE name = "getKillSwitch" -> 1
      [] name = "getOverridePrices" -> 2
      [] name = "fetchPrices" -> 3
      [] name = "setLastFetch" -> 4
      [] name = "sendAlert_source_failure" -> 5
      [] name = "readOraclePrices" -> 6
      [] name = "analyzePrices" -> 7
      [] name \in {"sendAlert_price_anomaly", "sendAlert_oracle_stale"} -> 8
      [] name = "updateOracle" -> 9
      [] name \in {"setLastUpdate", "incrementErrorCount"} -> 10
      [] name \in {"resetErrorCount", "sendAlert_update_failure"} -> 11
      [] name = "setKillSwitch" -> 12
      [] name = "sendAlert_watcher_error" -> 13
      [] name = "getStatus" -> 14
      [] name = "getErrorCount" -> 15
      [] name = "setStatus" -> 16
      [] name = "pushPriceSnapshot" -> 17
      [] name = "catch_incrementErrorCount" -> 18
      [] name = "catch_setStatus" -> 19
      [] OTHER -> 0

\* C32: the operations a tick has called are in the order of the steps, each
\* called once except the anomaly alerts (one per anomaly); a tick works at one
\* step at a time, and one that pushed its snapshot went through the override
\* read, the fetch or the override, the on-chain read, the analysis and the
\* status write before.
C32_StepsInOrder ==
    \A t \in Ticks :
        LET c == tk[t].calls
        IN /\ \A i \in DOMAIN c : StepOf(c[i]) > 0
           /\ \A i \in DOMAIN c : \A j \in DOMAIN c :
                i < j => \/ StepOf(c[i]) < StepOf(c[j])
                         \/ StepOf(c[i]) = 8 /\ StepOf(c[j]) = 8
           /\ InCalls(t, "pushPriceSnapshot")
                => /\ c[1] = "getKillSwitch"
                   /\ c[2] = "getOverridePrices"
                   /\ InCalls(t, "fetchPrices") <=> tk[t].priceSource # "override"
                   /\ InCalls(t, "fetchPrices") <=> InCalls(t, "setLastFetch")
                   /\ InCalls(t, "readOraclePrices")
                   /\ InCalls(t, "analyzePrices")
                   /\ InCalls(t, "setStatus")
                   /\ Len(tk[t].anomalies) > 0
                        => \E i \in DOMAIN c : StepOf(c[i]) = 8
                   /\ mustUpdate(tk[t].shouldUpdate, tk[t].killSwitchActive)
                        <=> InCalls(t, "updateOracle")

\* C32 happens: a tick has gone through every step, with an anomaly alerted
\* and an update made.
C32_Witness ==
    \E t \in Ticks :
        /\ tk[t].pc = "finally"
        /\ InCalls(t, "fetchPrices")
        /\ InCalls(t, "sendAlert_oracle_stale")
        /\ InCalls(t, "setLastUpdate")
        /\ InCalls(t, "resetErrorCount")
        /\ InCalls(t, "pushPriceSnapshot")


\* ------------------------------------------------------ the E6 round trip
\* Prices of up to seven decimals, in units of a ten-millionth of a dollar.
finePerDollar == E6 * 10
MaxFinePrice == 40

\* Number(val) / 1 000 000 is the price of n units.
DecodesTo(val, n, perDollar) == val * perDollar = n * E6

\* The tick's prices are the ones the contract holds, encoded.
ChainHolds(prices) ==
    /\ DOMAIN prices = Metals
    /\ chain = [m \in Metals |-> toE6(prices[m])]

MaxAttemptIndex == 5

\* C34: the delay after the failed attempt k (from 0) is 2 s, 4 s, 8 s and
\* then 15 s, never more; a call of updateOracle that made n submissions waited
\* the first n - 1 of them, so nothing after its last submission, failed or
\* not.
C34_BackoffDelays ==
    /\ \A k \in 0..MaxAttemptIndex :
         /\ retryDelay(k) <= 15000
         /\ retryDelay(k) = IF k = 0 THEN 2000 ELSE IF k = 1 THEN 4000
                            ELSE IF k = 2 THEN 8000 ELSE 15000
    /\ (updateOut # Null /\ updateOut.submissions > 0)
         => /\ updateOut.delays
                 = SubSeq(<<2000, 4000, 8000>>, 1, updateOut.submissions - 1)
            /\ \A k \in 1..(updateOut.submissions - 1) : ~updateIn.attempts[k]
            /\ updateOut.submissions <= maxRetries
                 => updateIn.attempts[updateOut.submissions]

\* C34 happens: every submission of a call failed, with the three delays
\* between the four of them.
C34_Witness ==
    updateOut # Null /\ ~updateOut.success /\ updateOut.delays = <<2000, 4000, 8000>>


\* ======================================================================
\* setOverridePrices against the override reads, store command by command
\* ======================================================================
\* The callers of getOverridePrices(): step 2 of a tick (scheduler.ts line 52)
\* and GET /status.
Readers == {"tick", "status"}

\* An override set an hour and more ago.
ExpiredOverride == [prices |-> [gold |-> 18000, silver |-> 280, platinum |-> 7300,
                                palladium |-> 5800],
                    expires |-> [at |-> 0 - 1], due |-> 0 - 1]

\* set: where POST /admin/override is (idle, setPrices, setExpires, answered);
\* answer: its HTTP status; read[r]: where the call of getOverridePrices() of r
\* is (idle, getExpires, delPrices, delExpires, getPrices, returned) and what
\* it returned.
InitRace ==
    /\ isRunning = FALSE
    /\ tk = [t \in Ticks |-> TickIdle]
    /\ killSwitch = FALSE
    /\ errorCount = 0
    /\ lastFetch = Null
    /\ lastUpdate = Null
    /\ status = "running"
    /\ priceHistory = historyMax - MaxHistoryFree
    /\ alertCooldown = [a \in AlertTypes |-> 0]
    /\ override = ExpiredOverride
    /\ sharedPrice = [cache |-> Null, stale |-> Null]
    /\ chain = NoPrices
    /\ now = 0
    /\ faults = 0
    /\ fetchIn = Null
    /\ fetchOut = Null
    /\ analyzeIn = Null
    /\ analyzeOut = Null
    /\ updateIn = Null
    /\ updateOut = Null
    /\ alertIn = Null
    /\ alertOut = Null
    /\ overrideCalls = [set |-> "idle", answer |-> 0,
                        read |-> [r \in Readers |-> [pc |-> "idle", result |-> Null]]]

raceFrame == <<isRunning, tk, killSwitch, errorCount, lastFetch, lastUpdate, status,
               priceHistory, alertCooldown, sharedPrice, chain, now, fetchIn, fetchOut,
               analyzeIn, analyzeOut, updateIn, updateOut, alertIn, alertOut>>

Reader(r, pc, result) ==
    [overrideCalls EXCEPT !.read[r] = [pc |-> pc, result |-> result]]

\* POST /admin/override with the four prices: line 233 calls setOverridePrices.
PostOverride ==
    /\ overrideCalls.set = "idle"
    /\ overrideCalls' = [overrideCalls EXCEPT !.set = "setPrices"]
    /\ UNCHANGED <<override, faults, raceFrame>>

\* setOverridePrices, line 195: SET of the prices key; a failure is answered
\* with 500.
SetPricesKey ==
    /\ overrideCalls.set = "setPrices"
    /\ \E ok \in Outcomes :
         /\ Fail(ok)
         /\ override' = IF ok THEN [override EXCEPT !.prices = OverridePrices] ELSE override
         /\ overrideCalls' = IF ok THEN [overrideCalls EXCEPT !.set = "setExpires"]
                             ELSE [overrideCalls EXCEPT !.set = "answered", !.answer = 500]
    /\ UNCHANGED raceFrame

\* setOverridePrices, line 196: SET of the expiry key, then the answer 200.
SetExpiresKey ==
    /\ overrideCalls.set = "setExpires"
    /\ \E ok \in Outcomes :
         /\ Fail(ok)
         /\ override' = IF ok THEN [override EXCEPT !.expires = [at |-> now + overrideUnits],
                                                    !.due = now + overrideUnits]
                        ELSE override
         /\ overrideCalls' = [overrideCalls EXCEPT !.set = "answered",
                                                   !.answer = IF ok THEN 200 ELSE 500]
    /\ UNCHANGED raceFrame

\* A caller enters getOverridePrices().
ReadOverride(r) ==
    /\ overrideCalls.read[r].pc = "idle"
    /\ overrideCalls' = Reader(r, "getExpires", Null)
    /\ UNCHANGED <<override, faults, raceFrame>>

\* getOverridePrices, lines 172-175: GET of the expiry key and the test of it.
\* Every store failure of the function ends in its catch block (lines 187-190).
GetExpiresKey(r) ==
    /\ overrideCalls.read[r].pc = "getExpires"
    /\ \E ok \in Outcomes :
         /\ Fail(ok)
         /\ overrideCalls' =
              IF ~ok THEN Reader(r, "returned", Null)
              ELSE IF override.expires # Null /\ override.expires.at < now
              THEN Reader(r, "delPrices", Null)
              ELSE Reader(r, "getPrices", Null)
    /\ UNCHANGED <<override, raceFrame>>

\* clearOverridePrices, line 201: DEL of the prices key.
DelPricesKey(r) ==
    /\ overrideCalls.read[r].pc = "delPrices"
    /\ \E ok \in Outcomes :
         /\ Fail(ok)
         /\ override' = IF ok THEN [override EXCEPT !.prices = Null] ELSE override
         /\ overrideCalls' = Reader(r, IF ok THEN "delExpires" ELSE "returned", Null)
    /\ UNCHANGED raceFrame

\* clearOverridePrices, line 202: DEL of the expiry key; line 178 returns null.
DelExpiresKey(r) ==
    /\ overrideCalls.read[r].pc = "delExpires"
    /\ \E ok \in Outcomes :
         /\ Fail(ok)
         /\ override' = IF ok THEN [override EXCEPT !.expires = Null] ELSE override
         /\ overrideCalls' = Reader(r, "returned", Null)
    /\ UNCHANGED raceFrame

\* getOverridePrices, lines 182-186: GET of the prices key.
GetPricesKey(r) ==
    /\ overrideCalls.read[r].pc = "getPrices"
    /\ \E ok \in Outcomes :
         /\ Fail(ok)
         /\ overrideCalls' = Reader(r, "returned", IF ok THEN override.prices ELSE Null)
    /\ UNCHANGED <<override, raceFrame>>

NextRace ==
    \/ PostOverride
    \/ SetPricesKey
    \/ SetExpiresKey
    \/ \E r \in Readers : ReadOverride(r)
    \/ \E r \in Readers : GetExpiresKey(r)
    \/ \E r \in Readers : DelPricesKey(r)
    \/ \E r \in Readers : DelExpiresKey(r)
    \/ \E r \in Readers : GetPricesKey(r)

SpecRace == InitRace /\ [][NextRace]_vars

\* C35, as stated: once the set request has been answered with 200, the
\* override it wrote is in the store whole, prices and expiry, whatever reads
\* of an expired older override ran beside it.  It fails: a read that saw the
\* old expiry deletes the new keys.
C35_AckedOverrideWhole ==
    (overrideCalls # Null /\ overrideCalls.answer = 200)
      => /\ override.prices = OverridePrices
         /\ override.expires = [at |-> override.due]


\* C36, as stated: with no kill-switch request from the operator, a tick ends
\* with the kill switch on whenever the stored counter is at the auto-pause
\* threshold or above.  It fails: the increment of the catch block (line 182)
\* is followed by no threshold test.
C36_CounterAtThresholdPauses ==
    \A t \in Ticks :
        (tk[t].pc = "finally" /\ errorCount >= maxConsecutiveErrors) => killSwitch


InitPaused ==
    /\ isRunning = FALSE
    /\ tk = [t \in Ticks |-> TickIdle]
    /\ killSwitch = TRUE
    /\ errorCount = maxConsecutiveErrors
    /\ lastFetch = Null
    /\ lastUpdate = [timestamp |-> 0 - staleThresholdUnits - 1, source |-> "goldapi"]
    /\ status = "paused"
    /\ priceHistory = historyMax - MaxHistoryFree
    /\ alertCooldown = [a \in AlertTypes |-> 0]
    /\ override = NoOverride
    /\ sharedPrice = [cache |-> Null, stale |-> Null]
    /\ chain = NoPrices
    /\ now = 0
    /\ faults = 0
    /\ fetchIn = Null
    /\ fetchOut = Null
    /\ analyzeIn = Null
    /\ analyzeOut = Null
    /\ updateIn = Null
    /\ updateOut = Null
    /\ alertIn = Null
    /\ alertOut = Null
    /\ overrideCalls = Null

\* The ticks run one after the other; the operator clears the kill switch
\* between two of them, and makes no other request.
NextPaused ==
    \/ \E t \in Ticks : ~isRunning /\ TimerFire(t)
    \/ \E t \in Ticks : GetKillSwitch(t)
    \/ \E t \in Ticks : GetOverridePrices(t)
    \/ \E t \in Ticks : FetchPrices(t)
    \/ \E t \in Ticks : AlertSourceFailure(t)
    \/ \E t \in Ticks : ReadOraclePrices(t)
    \/ \E t \in Ticks : AnalyzePrices(t)
    \/ \E t \in Ticks : SendAnomalyAlerts(t)
    \/ \E t \in Ticks : UpdateOracle(t)
    \/ \E t \in Ticks : SetLastUpdate(t)
    \/ \E t \in Ticks : ResetErrorCount(t)
    \/ \E t \in Ticks : IncrementErrorCount(t)
    \/ \E t \in Ticks : AlertUpdateFailure(t)
    \/ \E t \in Ticks : SetKillSwitch(t)
    \/ \E t \in Ticks : AlertWatcherError(t)
    \/ \E t \in Ticks : GetErrorCount(t)
    \/ \E t \in Ticks : SetStatus(t)
    \/ \E t \in Ticks : PushPriceSnapshot(t)
    \/ \E t \in Ticks : CatchIncrement(t)
    \/ \E t \in Ticks : CatchSetStatus(t)
    \/ \E t \in Ticks : Finally(t)
    \/ ~isRunning /\ AdminKillSwitch(FALSE)

SpecPaused == InitPaused /\ [][NextPaused]_vars

\* C38, as stated: the manual clear leaves the counter alone, and a tick after
\* it whose update fails while the counter is still at the threshold or above
\* ends with the kill switch on again.  The first half holds; the second fails
\* where the update_failure alert or setKillSwitch() raises.
C38_FailedUpdateAfterClearPausesAgain ==
    \A t \in Ticks :
        (/\ tk[t].pc = "finally"
         /\ ~tk[t].killSwitchActive
         /\ tk[t].updateResult = "failure"
         /\ errorCount >= maxConsecutiveErrors)
           => killSwitch


\* C39: the in-progress flag is set exactly while an invocation is in the body
\* of tick(); the step that ends a body, however it ends, leaves the flag
\* cleared, and a call of tick() made while no body is running starts a full
\* tick.
C39_FlagClearedAtEveryEnd ==
    /\ [](isRunning <=> \E t \in Ticks : InBody(tk[t]))
    /\ [][\A t \in Ticks :
            /\ (InBody(tk[t]) /\ ~InBody(tk'[t])) => ~isRunning'
            /\ (tk[t].pc = "idle" /\ tk'[t].pc # "idle" /\ \A u \in Ticks : ~InBody(tk[u]))
                 => tk'[t].pc = "getKillSwitch" /\ isRunning']_vars

\* C39 happens: an earlier tick has ended through its catch block, which wrote
\* the status, and a later call of tick() is running its body.
C39_Witness ==
    /\ isRunning
    /\ status = "error"
    /\ \E t \in Ticks : tk[t].pc = "getOverridePrices" /\ InCalls(t, "getKillSwitch")


\* C40, as stated: of two notifications of one alert type that the endpoint
\* both accepted, the second was posted a full cooldown period after the
\* first.  It fails: the cooldown key is written after the POST, and when that
\* write fails the next alert of the type is posted at once.
C40_OneDeliveryPerCooldown ==
    \A j \in DOMAIN alertOut : \A k \in DOMAIN alertOut :
        (/\ j < k
         /\ alertOut[j].type = alertOut[k].type
         /\ alertOut[j].posted
         /\ alertOut[k].posted)
           => alertOut[k].at - alertOut[j].at >= alertCooldownUnits

====
